---- MODULE Spec2Model ----
(***************************************************************************)
(* A model of the trading-bot engine of rn-as: the in-process controller   *)
(* (BotService, src/lib/native-websocket.ts) and the native engine         *)
(* (BotEngine, src/unnamed/part_006).                                      *)
(*                                                                         *)
(* Amounts are JavaScript numbers (exact integers below 2^53) in the       *)
(* controller and 32-bit Int in the native engine.  Both exceed the range  *)
(* of the model checker's integers for the IDR table, so an amount is held *)
(* as a pair <<hi, lo>> standing for hi * LIMB + lo with 0 <= lo < LIMB.   *)
(***************************************************************************)
EXTENDS Integers, Sequences, FiniteSets, Bags, TLC

\* bot: the fields of the BotService object, its event loop and its storage
\* eng: the native BotEngine and its threads
\* fn:  the inputs and the result of a function applied on its own
VARIABLES bot, eng, fn

vars == <<bot, eng, fn>>

\* ------------------------------------------------------------------------
\* Wide integers
\* ------------------------------------------------------------------------
LIMB == 1000 * 1000

WNorm(h, l) == <<h + (l \div LIMB), l % LIMB>>

W(n) == WNorm(0, n)

WZero == W(0)

WAdd(a, b) == WNorm(a[1] + b[1], a[2] + b[2])

WSub(a, b) == WNorm(a[1] - b[1], a[2] - b[2])

WLt(a, b) == a[1] < b[1] \/ (a[1] = b[1] /\ a[2] < b[2])

WLe(a, b) == ~WLt(b, a)

\* a * k for a small factor k (0 <= k <= 2000)
WMul(a, k) == WNorm(a[1] * k + ((a[2] * k) \div LIMB), (a[2] * k) % LIMB)

\* floor(a / d) for a >= 0 and a small divisor d (0 < d <= 2000)
WDiv(a, d) == <<a[1] \div d, (((a[1] % d) * LIMB) + a[2]) \div d>>

RECURSIVE WSumFrom(_, _)
WSumFrom(seq, i) == IF i > Len(seq) THEN WZero ELSE WAdd(seq[i], WSumFrom(seq, i + 1))

WSum(seq) == WSumFrom(seq, 1)

\* Math.round(x * percent / 100) for x >= 0: round half up
RoundPercent(x, percent) == WDiv(WAdd(WMul(x, 2 * percent), W(100)), 200)

\* 32-bit two's complement (Kotlin Int)
TwoTo32 == <<4294, 967296>>

TwoTo31 == <<2147, 483648>>

RECURSIVE WWrap32(_)
WWrap32(w) ==
  IF WLt(w, WSub(WZero, TwoTo31)) THEN WWrap32(WAdd(w, TwoTo32))
  ELSE IF WLe(TwoTo31, w) THEN WWrap32(WSub(w, TwoTo32))
  ELSE w

I32Mul(a, k) == WWrap32(WMul(a, k))

I32Sub(a, b) == WWrap32(WSub(a, b))

\* ------------------------------------------------------------------------
\* Program constants
\* ------------------------------------------------------------------------
MAX_K_STEP == 100

Currencies == {"IDR", "USD", "EUR"}

MIN_BID_BY_CURRENCY == [c \in Currencies |->
  CASE c = "IDR" -> 14000 [] c = "USD" -> 1 [] c = "EUR" -> 1]

MAX_BID_BY_CURRENCY == [c \in Currencies |->
  CASE c = "IDR" -> 74000000 [] c = "USD" -> 5000 [] c = "EUR" -> 4600]

\* an unknown currency falls back to the IDR row
TableCurrency(currency) == IF currency \in Currencies THEN currency ELSE "IDR"

minBidOf(currency) == WMul(W(MIN_BID_BY_CURRENCY[TableCurrency(currency)]), 100)

maxBidOf(currency) == WMul(W(MAX_BID_BY_CURRENCY[TableCurrency(currency)]), 100)

\* the native engine computes the same table in Int
nativeMinBidOf(currency) ==
  CASE currency = "USD" -> I32Mul(W(1), 100)
    [] currency = "EUR" -> I32Mul(W(1), 100)
    [] OTHER -> I32Mul(W(14000), 100)

nativeMaxBidOf(currency) ==
  CASE currency = "USD" -> I32Mul(W(5000), 100)
    [] currency = "EUR" -> I32Mul(W(4600), 100)
    [] OTHER -> I32Mul(W(74000000), 100)

\* ------------------------------------------------------------------------
\* splitBidAmounts
\* ------------------------------------------------------------------------
\* The while loop of the controller.  fuel counts the iterations left: a
\* result with ended = FALSE is a loop that has not ended within them.
RECURSIVE SplitLoop(_, _, _, _, _)
SplitLoop(remaining, minBid, maxBid, chunks, fuel) ==
  IF ~WLt(WZero, remaining) THEN [ended |-> TRUE, chunks |-> chunks]
  ELSE IF fuel = 0 THEN [ended |-> FALSE, chunks |-> chunks]
  ELSE IF WLe(remaining, maxBid) THEN [ended |-> TRUE, chunks |-> Append(chunks, remaining)]
  ELSE LET remainder == WSub(remaining, maxBid)
           next == IF WLt(WZero, remainder) /\ WLt(remainder, minBid)
                   THEN WSub(remaining, minBid)
                   ELSE maxBid
       IN SplitLoop(WSub(remaining, next), minBid, maxBid, Append(chunks, next), fuel - 1)

splitBidAmounts(total, minBid, maxBid, fuel) ==
  IF WLe(total, maxBid) THEN [ended |-> TRUE, chunks |-> <<total>>]
  ELSE SplitLoop(total, minBid, maxBid, <<>>, fuel)

\* The same loop on Int: every subtraction wraps.
RECURSIVE NativeSplitLoop(_, _, _, _, _)
NativeSplitLoop(remaining, minBid, maxBid, chunks, fuel) ==
  IF ~WLt(WZero, remaining) THEN [ended |-> TRUE, chunks |-> chunks]
  ELSE IF fuel = 0 THEN [ended |-> FALSE, chunks |-> chunks]
  ELSE IF WLe(remaining, maxBid) THEN [ended |-> TRUE, chunks |-> Append(chunks, remaining)]
  ELSE LET remainder == I32Sub(remaining, maxBid)
           next == IF WLt(WZero, remainder) /\ WLt(remainder, minBid)
                   THEN I32Sub(remaining, minBid)
                   ELSE maxBid
       IN NativeSplitLoop(I32Sub(remaining, next), minBid, maxBid, Append(chunks, next), fuel - 1)

nativeSplitBidAmounts(total, minBid, maxBid, fuel) ==
  IF WLe(total, maxBid) THEN [ended |-> TRUE, chunks |-> <<total>>]
  ELSE NativeSplitLoop(total, minBid, maxBid, <<>>, fuel)

\* ------------------------------------------------------------------------
\* calculateBidAmounts (controller)
\* ------------------------------------------------------------------------
Min(a, b) == IF a < b THEN a ELSE b

Max(a, b) == IF a > b THEN a ELSE b

\* the effective martingale step of a bid
EffectiveStepResetting(martingaleStep, switchDemoActive, resetMartingale) ==
  LET s0 == IF switchDemoActive THEN 0 ELSE martingaleStep
      s1 == Min(s0, MAX_K_STEP)
  IN  IF resetMartingale = 0 THEN 0
      ELSE IF resetMartingale > 0 /\ s1 > resetMartingale THEN 0
      ELSE s1

EffectiveStep(martingaleStep, switchDemoActive, resetMartingale) ==
  LET s0 == IF switchDemoActive THEN 0 ELSE martingaleStep
      s1 == Min(s0, MAX_K_STEP)
  IN  IF resetMartingale = 0 THEN 0
      ELSE IF resetMartingale > 0 THEN Min(s1, resetMartingale)
      ELSE s1

\* for (i = 1; i <= step; i++) { amount = round(total * rate); total += amount }
RECURSIVE CompoundLoop(_, _, _, _, _)
CompoundLoop(i, step, total, amount, percent) ==
  IF i > step THEN amount
  ELSE LET a == RoundPercent(total, IF percent > 0 THEN percent ELSE 100)
       IN  CompoundLoop(i + 1, step, WAdd(total, a), a, percent)

\* rawAmount: the bid of the step in minor units
RawAmount(base, percent, step) ==
  WMul(CompoundLoop(1, step, W(base), W(base), percent), 100)

\* balance: the balance of the wallet the bid is placed on (0: not known)
CalcAmountsNoMin(base, percent, step, currency, balance, fuel) ==
  LET rawAmount == RawAmount(base, percent, step)
      maxBid == maxBidOf(currency)
  IN  IF WLe(rawAmount, WZero) THEN [amounts |-> <<>>, error |-> "le0", stop |-> FALSE]
      ELSE IF WLt(maxBid, rawAmount)
        THEN [amounts |-> splitBidAmounts(rawAmount, minBidOf(currency), maxBid, fuel).chunks,
              error |-> "none", stop |-> FALSE]
      ELSE IF WLt(WZero, balance) /\ WLt(balance, rawAmount)
        THEN [amounts |-> <<>>, error |-> "balance", stop |-> TRUE]
      ELSE [amounts |-> <<rawAmount>>, error |-> "none", stop |-> FALSE]

CalcAmounts(base, percent, step, currency, balance, fuel) ==
  LET rawAmount == RawAmount(base, percent, step)
      minBid == minBidOf(currency)
      maxBid == maxBidOf(currency)
  IN  IF WLe(rawAmount, WZero) THEN [amounts |-> <<>>, error |-> "le0", stop |-> FALSE]
      ELSE IF WLt(rawAmount, minBid) THEN [amounts |-> <<>>, error |-> "min", stop |-> FALSE]
      ELSE IF WLt(maxBid, rawAmount)
        THEN [amounts |-> splitBidAmounts(rawAmount, minBid, maxBid, fuel).chunks,
              error |-> "none", stop |-> FALSE]
      ELSE IF WLt(WZero, balance) /\ WLt(balance, rawAmount)
        THEN [amounts |-> <<>>, error |-> "balance", stop |-> TRUE]
      ELSE [amounts |-> <<rawAmount>>, error |-> "none", stop |-> FALSE]

\* ------------------------------------------------------------------------
\* resolveOutcome
\* ------------------------------------------------------------------------
resolveOutcomeCallOnly(trend, openRate, closeRate) ==
  IF closeRate = openRate THEN "tie"
  ELSE IF closeRate > openRate THEN "win" ELSE "loss"

resolveOutcome(trend, openRate, closeRate) ==
  IF closeRate = openRate THEN "tie"
  ELSE IF trend = "call" THEN (IF closeRate > openRate THEN "win" ELSE "loss")
  ELSE (IF closeRate < openRate THEN "win" ELSE "loss")

\* ------------------------------------------------------------------------
\* BotService: fields and helpers
\* ------------------------------------------------------------------------
NoTrend == "none"

Trends == {"call", "put"}

\* deleting the first n entries of an insertion-ordered Set
DropFirst(seq, n) == SubSeq(seq, n + 1, Len(seq))

SeqHas(seq, x) == \E i \in 1..Len(seq) : seq[i] = x

SeqDel(seq, x) == SelectSeq(seq, LAMBDA y : y # x)

SetAdd(seq, x) == IF SeqHas(seq, x) THEN seq ELSE Append(seq, x)

NoStore == [present |-> FALSE, lastStep |-> 0, lastWasSwitchDemo |-> FALSE,
            lastTrend |-> NoTrend]

NoResume == [shouldResume |-> FALSE, resumeStep |-> 0, reason |-> "NONE"]

\* what the last checkResumeState call fetched and returned
NoCheck == [called |-> FALSE, deals |-> <<>>, state |-> NoResume]

\* what the last sendBid call did: skip names the guard that refused, candle
\* the colour of the latest candle its caller had fetched
NoSend == [called |-> FALSE, path |-> "none", skip |-> "none", candle |-> "none",
           creates |-> 0, trend |-> NoTrend, amounts |-> <<>>, error |-> "none",
           guardOpen |-> FALSE, dealType |-> "none"]

\* what the last settlement of a bid did
NoSettle == [called |-> FALSE, result |-> "none", trend |-> NoTrend, below |-> FALSE,
             switchDemo |-> FALSE]

\* the object after construction; reconnectTimer tells whether the timer of
\* scheduleReconnect is armed; tasks are the timers and the awaited
\* continuations of the event loop, store is the persisted BotState, unacked
\* the creates sent on the open connection that have no reply yet,
\* brokerBalance the balance the broker reports (0: none reported), sent what
\* the last sendBid call did
BotFields(config) ==
  [status |-> "idle", config |-> config,
   tradeSocket |-> "null", streamSocket |-> "null",
   pendingUUIDs |-> <<>>, openedBids |-> <<>>, processedBatches |-> <<>>,
   martingaleStep |-> 0, lossStreak |-> 0,
   balanceReal |-> WZero, balanceDemo |-> WZero,
   userCurrency |-> "IDR", currentWalletType |-> "demo",
   forceDemo |-> FALSE, allowAutoSwitch |-> TRUE,
   lastBidStep |-> 0, lastBidWasSwitchDemo |-> FALSE,
   cooldownActive |-> FALSE, cooldownCount |-> 0, cooldownMax |-> 5,
   shouldUseSignal |-> TRUE, repeatStep |-> 0, lastSignalTrend |-> NoTrend,
   pendingResumeState |-> NoResume,
   tradeReady |-> FALSE, streamReady |-> FALSE,
   disconnecting |-> FALSE, reconnectTimer |-> FALSE,
   lastFastBidTrend |-> NoTrend, fastRepeatTrend |-> NoTrend,
   momentumNoSignalSince |-> "null", bidInFlightUntil |-> "null",
   flashInitialSent |-> FALSE, fastInitialSent |-> FALSE,
   switchDemoActive |-> FALSE, switchDemoStep |-> -1,
   switchDemoReturnWallet |-> "null",
   disableRepeatAfterDemo |-> FALSE, skipStopLossOnce |-> FALSE,
   profitReal |-> 0, profitDemo |-> 0, lastBidAt |-> "long",
   tasks |-> EmptyBag, store |-> NoStore, unacked |-> 0, brokerBalance |-> WZero,
   run |-> 0, startPc |-> "none", startResume |-> NoResume,
   lastCheck |-> NoCheck, sent |-> NoSend,
   initialCreates |-> 0, reentryCreates |-> 0, settled |-> NoSettle]

\* x: the trend a timer carries, or the channel or socket a join belongs to
Task(k, x) == [k |-> k, x |-> x]

\* a task remembers the run (the start) that created it
AddTask(s, t) ==
  [s EXCEPT !.tasks = @ (+) SetToBag({[k |-> t.k, x |-> t.x, run |-> s.run]})]

DelTask(s, t) == [s EXCEPT !.tasks = @ (-) SetToBag({t})]

HasTask(s, t) == BagIn(t, s.tasks)

\* the handles kept in signalTimers; awaited fetches are not among them
IsTimer(t) == t.k \in {"signal", "aligned", "tick", "fastInitial"}

ClearTimers(s) ==
  LET live == {t \in BagToSet(s.tasks) : ~IsTimer(t)}
  IN  [s EXCEPT !.tasks = [t \in live |-> s.tasks[t]]]

applyCooldown(s) ==
  IF s.config.strategy # "Momentum" /\ s.config.strategy # "Flash 5st" THEN s
  ELSE [s EXCEPT !.cooldownActive = TRUE, !.cooldownCount = 1]

persistBotState(s) ==
  [s EXCEPT !.store = [present |-> TRUE, lastStep |-> s.lastBidStep,
                       lastWasSwitchDemo |-> s.lastBidWasSwitchDemo,
                       lastTrend |-> s.lastSignalTrend]]

loadBotState(s) ==
  IF ~s.store.present THEN s
  ELSE [s EXCEPT !.lastBidStep = s.store.lastStep,
                 !.lastBidWasSwitchDemo = s.store.lastWasSwitchDemo,
                 !.lastSignalTrend =
                    IF s.store.lastTrend # NoTrend THEN s.store.lastTrend ELSE @,
                 !.lastFastBidTrend =
                    IF s.store.lastTrend # NoTrend THEN s.store.lastTrend
                    ELSE s.lastSignalTrend,
                 !.fastRepeatTrend = NoTrend]

clampStepUnbounded(s, step) == Max(0, step)

clampStep(s, step) ==
  LET resetMartingale == s.config.resetMartingale
  IN  IF resetMartingale = 0 THEN 0
      ELSE IF resetMartingale > 0 THEN Max(0, Min(step, resetMartingale))
      ELSE Max(0, step)

resetConnectionState(s) == [s EXCEPT !.tradeReady = FALSE, !.streamReady = FALSE]

teardownSockets(s) ==
  [s EXCEPT !.tradeSocket = "null", !.streamSocket = "null", !.unacked = 0]

stop(s) ==
  teardownSockets(resetConnectionState(
    [ClearTimers(s) EXCEPT !.status = "stopped", !.pendingUUIDs = <<>>,
                           !.openedBids = <<>>, !.processedBatches = <<>>,
                           !.disconnecting = FALSE, !.reconnectTimer = FALSE]))

\* ------------------------------------------------------------------------
\* BotService: bidding
\* ------------------------------------------------------------------------
MaxSplitIter == 128

calculateBidAmountsLadderStep(s) ==
  LET step == EffectiveStep(s.martingaleStep, FALSE, s.config.resetMartingale)
      dealType == IF s.forceDemo THEN "demo" ELSE s.currentWalletType
      availableBalance == IF dealType = "demo" THEN s.balanceDemo ELSE s.balanceReal
  IN  CalcAmounts(s.config.bidAmount, s.config.martingale, step, s.userCurrency,
                  availableBalance, MaxSplitIter)

calculateBidAmounts(s) ==
  LET step == EffectiveStep(s.martingaleStep, s.switchDemoActive, s.config.resetMartingale)
      dealType == IF s.forceDemo THEN "demo" ELSE s.currentWalletType
      availableBalance == IF dealType = "demo" THEN s.balanceDemo ELSE s.balanceReal
  IN  CalcAmounts(s.config.bidAmount, s.config.martingale, step, s.userCurrency,
                  availableBalance, MaxSplitIter)

IsDemoMode(s) ==
  s.forceDemo \/ s.currentWalletType = "demo" \/ s.switchDemoActive \/ s.disableRepeatAfterDemo

CanRepeat(s) == s.config.maxMartingale > 0 /\ s.repeatStep > 0

SelectTrendWithoutOverride(s, trend) ==
  IF s.config.strategy = "Fast"
  THEN IF CanRepeat(s) /\ ~IsDemoMode(s) /\ s.lastSignalTrend # NoTrend
       THEN [s EXCEPT !.lastFastBidTrend = s.lastSignalTrend,
                      !.sent.trend = s.lastSignalTrend]
       ELSE [s EXCEPT !.lastSignalTrend = trend, !.lastFastBidTrend = trend,
                      !.sent.trend = trend]
  ELSE IF CanRepeat(s) /\ s.lastSignalTrend # NoTrend
       THEN [s EXCEPT !.sent.trend = s.lastSignalTrend]
       ELSE [s EXCEPT !.lastSignalTrend = trend, !.sent.trend = trend]

\* the trend a bid is sent with, and the fields its choice updates
SelectTrend(s, trend) ==
  IF s.config.strategy = "Fast"
  THEN IF ~IsDemoMode(s) /\ s.fastRepeatTrend # NoTrend
       THEN [s EXCEPT !.lastSignalTrend = s.fastRepeatTrend,
                      !.lastFastBidTrend = s.fastRepeatTrend,
                      !.sent.trend = s.fastRepeatTrend]
       ELSE IF CanRepeat(s) /\ ~IsDemoMode(s) /\ s.lastSignalTrend # NoTrend
       THEN [s EXCEPT !.lastFastBidTrend = s.lastSignalTrend,
                      !.sent.trend = s.lastSignalTrend]
       ELSE [s EXCEPT !.lastSignalTrend = trend, !.lastFastBidTrend = trend,
                      !.sent.trend = trend]
  ELSE IF CanRepeat(s) /\ s.lastSignalTrend # NoTrend
       THEN [s EXCEPT !.sent.trend = s.lastSignalTrend]
       ELSE [s EXCEPT !.lastSignalTrend = trend, !.sent.trend = trend]

\* the part of sendBid after its guards: amounts, transmission, bookkeeping
Transmit(s, trend) ==
  LET s1 == SelectTrend(s, trend)
      calc == calculateBidAmounts(s1)
      s2 == IF calc.stop THEN stop(s1) ELSE s1
      targetOpen == s2.streamSocket = "open" \/ s2.tradeSocket # "null"
      n == IF targetOpen THEN Len(calc.amounts) ELSE 0
  IN  IF calc.amounts = <<>>
      THEN [s2 EXCEPT !.sent.error = calc.error]
      ELSE persistBotState(
             [s2 EXCEPT !.lastBidAt = "short",
                        !.bidInFlightUntil = "future",
                        !.lastBidStep = s2.martingaleStep,
                        !.lastBidWasSwitchDemo = s2.forceDemo,
                        !.sent.creates = n,
                        !.unacked = @ + n,
                        !.sent.amounts = calc.amounts,
                        !.sent.dealType =
                           IF s2.forceDemo THEN "demo" ELSE s2.currentWalletType,
                        !.sent.guardOpen =
                           Len(s2.openedBids) > 0 \/ Len(s2.pendingUUIDs) > 0,
                        !.initialCreates = IF s.sent.path = "initial" THEN @ + n ELSE @,
                        !.reentryCreates = IF s.sent.path = "reentry" THEN @ + n ELSE @])

\* path names the caller: "tick", "signal", "aligned", "initial", "reentry"
sendBid(s0, trend, bypassInterval, path) ==
  LET s == [s0 EXCEPT !.sent = [NoSend EXCEPT !.called = TRUE, !.path = path]]
  IN  IF s.status # "running" THEN [s EXCEPT !.sent.skip = "status"]
      ELSE IF s.config.strategy # "Signal" /\ ~bypassInterval /\ s.lastBidAt = "short"
        THEN [s EXCEPT !.sent.skip = "interval"]
      ELSE IF s.bidInFlightUntil = "future" THEN [s EXCEPT !.sent.skip = "inFlight"]
      ELSE IF Len(s.openedBids) > 0 \/ Len(s.pendingUUIDs) > 0
        THEN [s EXCEPT !.sent.skip = "open"]
      ELSE IF ~s.tradeReady \/ ~s.streamReady THEN [s EXCEPT !.sent.skip = "ready"]
      ELSE IF s.tradeSocket # "open" THEN [s EXCEPT !.sent.skip = "socket"]
      ELSE IF s.cooldownActive /\ s.cooldownCount + 1 <= s.cooldownMax
        THEN [s EXCEPT !.cooldownCount = @ + 1, !.sent.skip = "cooldown"]
      ELSE Transmit(IF s.cooldownActive
                    THEN [s EXCEPT !.cooldownActive = FALSE, !.cooldownCount = 0]
                    ELSE s, trend)

\* at second zero the bid goes out at once, otherwise a timer is armed
queueBidAtSecondZero(s, trend, atZero, path) ==
  IF atZero THEN sendBid(s, trend, FALSE, path)
  ELSE AddTask(s, Task("aligned", trend))

maybeStartFlashInitialBid(s) ==
  IF s.config.strategy # "Flash 5st" \/ s.flashInitialSent
     \/ ~s.tradeReady \/ ~s.streamReady THEN s
  ELSE sendBid([s EXCEPT !.flashInitialSent = TRUE], "call", FALSE, "initial")

\* up to the await of the candle fetch
maybeStartFastInitialBid(s) ==
  IF s.config.strategy # "Fast" \/ s.fastInitialSent
     \/ ~s.tradeReady \/ ~s.streamReady THEN s
  ELSE AddTask([s EXCEPT !.fastInitialSent = TRUE], Task("fastInitialFetch", NoTrend))

queueFastReentryNever(s, fallbackTrend) == s

queueFastReentry(s, fallbackTrend) ==
  IF s.status # "running" THEN s
  ELSE AddTask(s, Task("reentry", fallbackTrend))

\* ------------------------------------------------------------------------
\* BotService: inbound frames and settlement
\* ------------------------------------------------------------------------
PendingMax == 20

PendingDrop == 10

OpenedMax == 50

BatchMax == 100

BatchDrop == 50

\* phx_reply on topic bo; uuid "" stands for a reply without a uuid
OnPhxReply(s, uuid) ==
  LET added == SetAdd(s.pendingUUIDs, uuid)
      p == IF uuid = "" THEN s.pendingUUIDs
           ELSE IF Len(added) > PendingMax THEN DropFirst(added, PendingDrop)
           ELSE added
  IN  [s EXCEPT !.pendingUUIDs = p, !.bidInFlightUntil = "null"]

\* opened; closeAt 0 stands for a frame without a close time
OnOpened(s, uuid, closeAt, openRate, trend) ==
  IF uuid # "" /\ ~SeqHas(s.pendingUUIDs, uuid) THEN s
  ELSE LET bid == [closeAt |-> closeAt, openRate |-> openRate, trend |-> trend,
                   uuid |-> uuid]
           pushed == Append(s.openedBids, bid)
       IN  [s EXCEPT !.pendingUUIDs = SeqDel(@, uuid),
                     !.bidInFlightUntil = "null",
                     !.openedBids = IF closeAt = 0 THEN @
                                    ELSE IF Len(pushed) > OpenedMax THEN Tail(pushed)
                                    ELSE pushed]

OnBalanceChanged(s, accountType, balance) ==
  [s EXCEPT !.balanceReal = IF accountType = "real" THEN balance ELSE @,
            !.balanceDemo = IF accountType = "demo" THEN balance ELSE @]

OnLossNoCeiling(s) ==
  LET resetMartingale == s.config.resetMartingale
      maxStep == s.config.maxMartingale
      s1 == [s EXCEPT !.lossStreak = @ + 1]
      s2 == IF resetMartingale = 0 THEN [s1 EXCEPT !.martingaleStep = 0]
            ELSE IF resetMartingale > 0 /\ s1.martingaleStep >= resetMartingale
            THEN applyCooldown([s1 EXCEPT !.martingaleStep = 0, !.lossStreak = 0,
                                          !.repeatStep = 0, !.shouldUseSignal = TRUE])
            ELSE [s1 EXCEPT !.martingaleStep = @ + 1]
      s3 == s2
      r == IF s3.disableRepeatAfterDemo THEN 0
           ELSE IF maxStep > 0 /\ s3.repeatStep < maxStep THEN s3.repeatStep + 1
           ELSE 0
  IN  [s3 EXCEPT !.repeatStep = r, !.shouldUseSignal = (r = 0)]

\* a lost bid outside switch-demo
OnLoss(s) ==
  LET resetMartingale == s.config.resetMartingale
      maxStep == s.config.maxMartingale
      s1 == [s EXCEPT !.lossStreak = @ + 1]
      s2 == IF resetMartingale = 0 THEN [s1 EXCEPT !.martingaleStep = 0]
            ELSE IF resetMartingale > 0 /\ s1.martingaleStep >= resetMartingale
            THEN applyCooldown([s1 EXCEPT !.martingaleStep = 0, !.lossStreak = 0,
                                          !.repeatStep = 0, !.shouldUseSignal = TRUE])
            ELSE [s1 EXCEPT !.martingaleStep = @ + 1]
      s3 == [s2 EXCEPT !.martingaleStep = Min(@, MAX_K_STEP)]
      r == IF s3.disableRepeatAfterDemo THEN 0
           ELSE IF maxStep > 0 /\ s3.repeatStep < maxStep THEN s3.repeatStep + 1
           ELSE 0
  IN  [s3 EXCEPT !.repeatStep = r, !.shouldUseSignal = (r = 0)]

\* OnWin whose reset outside switch-demo leaves repeatStep
OnWinKeepsRepeat(s) ==
  IF s.switchDemoActive
  THEN applyCooldown(
         [s EXCEPT !.switchDemoActive = FALSE,
                   !.martingaleStep = IF s.switchDemoStep >= 0 THEN s.switchDemoStep ELSE @,
                   !.switchDemoStep = -1,
                   !.forceDemo = FALSE,
                   !.currentWalletType =
                      IF s.switchDemoReturnWallet # "null" THEN s.switchDemoReturnWallet
                      ELSE "real",
                   !.switchDemoReturnWallet = "null",
                   !.allowAutoSwitch = TRUE,
                   !.lastBidWasSwitchDemo = FALSE,
                   !.repeatStep = 0,
                   !.disableRepeatAfterDemo = TRUE,
                   !.skipStopLossOnce = TRUE])
  ELSE applyCooldown(
         [s EXCEPT !.lossStreak = 0, !.martingaleStep = 0,
                   !.shouldUseSignal = TRUE, !.allowAutoSwitch = TRUE,
                   !.disableRepeatAfterDemo = FALSE])

OnWin(s) ==
  IF s.switchDemoActive
  THEN applyCooldown(
         [s EXCEPT !.switchDemoActive = FALSE,
                   !.martingaleStep = IF s.switchDemoStep >= 0 THEN s.switchDemoStep ELSE @,
                   !.switchDemoStep = -1,
                   !.forceDemo = FALSE,
                   !.currentWalletType =
                      IF s.switchDemoReturnWallet # "null" THEN s.switchDemoReturnWallet
                      ELSE "real",
                   !.switchDemoReturnWallet = "null",
                   !.allowAutoSwitch = TRUE,
                   !.lastBidWasSwitchDemo = FALSE,
                   !.repeatStep = 0,
                   !.disableRepeatAfterDemo = TRUE,
                   !.skipStopLossOnce = TRUE])
  ELSE applyCooldown(
         [s EXCEPT !.lossStreak = 0, !.martingaleStep = 0, !.repeatStep = 0,
                   !.shouldUseSignal = TRUE, !.allowAutoSwitch = TRUE,
                   !.disableRepeatAfterDemo = FALSE])

\* SettleBid that counts a loss in switch-demo as a loss of the ladder
SettleBidCountsDemoLoss(s, bid, endRate) ==
  LET result == resolveOutcome(bid.trend, bid.openRate, endRate)
      s1 == IF s.config.strategy = "Fast"
            THEN [s EXCEPT !.fastRepeatTrend =
                    IF ~IsDemoMode(s) /\ result = "win" THEN bid.trend ELSE NoTrend]
            ELSE s
      s2 == IF result = "win" THEN OnWin(s1)
            ELSE IF result = "loss" THEN OnLoss(s1)
            ELSE s1
      s3 == persistBotState(
              [s2 EXCEPT !.settled = [called |-> TRUE, result |-> result,
                                      trend |-> bid.trend,
                                      below |-> endRate < bid.openRate,
                                      switchDemo |-> s.switchDemoActive]])
  IN  IF s3.status = "running" /\ s3.config.strategy = "Fast"
      THEN queueFastReentry(s3, bid.trend)
      ELSE s3

\* one pass of the loop over the matching bids
SettleBid(s, bid, endRate) ==
  LET result == resolveOutcome(bid.trend, bid.openRate, endRate)
      s1 == IF s.config.strategy = "Fast"
            THEN [s EXCEPT !.fastRepeatTrend =
                    IF ~IsDemoMode(s) /\ result = "win" THEN bid.trend ELSE NoTrend]
            ELSE s
      s2 == IF result = "win" THEN OnWin(s1)
            ELSE IF result = "loss" /\ ~s1.switchDemoActive THEN OnLoss(s1)
            ELSE s1
      s3 == persistBotState(
              [s2 EXCEPT !.settled = [called |-> TRUE, result |-> result,
                                      trend |-> bid.trend,
                                      below |-> endRate < bid.openRate,
                                      switchDemo |-> s.switchDemoActive]])
  IN  IF s3.status = "running" /\ s3.config.strategy = "Fast"
      THEN queueFastReentry(s3, bid.trend)
      ELSE s3

RECURSIVE SettleAll(_, _, _)
SettleAll(s, bids, endRate) ==
  IF bids = <<>> THEN s
  ELSE SettleAll(SettleBid(s, Head(bids), endRate), Tail(bids), endRate)

\* the seen-set after a new key: over BatchMax entries the oldest go
RememberBatch(seen, key) ==
  LET added == Append(seen, key)
  IN  IF Len(added) > BatchMax THEN DropFirst(added, BatchDrop) ELSE added

handleCloseDealBatchNoDedupe(s, key, endRate) ==
  IF key = 0 THEN s
  ELSE LET s1 == [s EXCEPT !.processedBatches = RememberBatch(@, key)]
           matching == SelectSeq(s1.openedBids, LAMBDA b : b.closeAt = key)
       IN  IF matching = <<>> THEN s1
           ELSE AddTask(
                  SettleAll([s1 EXCEPT !.openedBids = SelectSeq(@, LAMBDA b : b.closeAt # key),
                                       !.reentryCreates = 0],
                            matching, endRate),
                  Task("risk", NoTrend))

\* close_deal_batch up to the await of the profit refresh; key 0 stands
\* for a payload without ric or finished_at
handleCloseDealBatch(s, key, endRate) ==
  IF key = 0 \/ SeqHas(s.processedBatches, key) THEN s
  ELSE LET s1 == [s EXCEPT !.processedBatches = RememberBatch(@, key)]
           matching == SelectSeq(s1.openedBids, LAMBDA b : b.closeAt = key)
       IN  IF matching = <<>> THEN s1
           ELSE AddTask(
                  SettleAll([s1 EXCEPT !.openedBids = SelectSeq(@, LAMBDA b : b.closeAt # key),
                                       !.reentryCreates = 0],
                            matching, endRate),
                  Task("risk", NoTrend))

\* ------------------------------------------------------------------------
\* BotService: risk rules, trend, resume
\* ------------------------------------------------------------------------
getCurrentProfit(s) ==
  LET wallet == IF s.forceDemo THEN "demo" ELSE s.currentWalletType
  IN  IF wallet = "demo" THEN s.profitDemo ELSE s.profitReal

shouldSwitchToDemo(s) ==
  s.config.autoSwitchDemo /\ s.currentWalletType = "real" /\ ~s.switchDemoActive

StopProfitRule(s) ==
  IF s.config.stopProfitAfter > 0 /\ getCurrentProfit(s) >= s.config.stopProfitAfter * 100
  THEN stop(s) ELSE s

applyRiskRulesKeepSkip(s) ==
  IF s.skipStopLossOnce THEN StopProfitRule(s)
  ELSE IF ~s.switchDemoActive /\ s.config.stopLoss > 0
          /\ s.martingaleStep > s.config.stopLoss
  THEN IF shouldSwitchToDemo(s) /\ s.allowAutoSwitch
       THEN persistBotState(
              [s EXCEPT !.switchDemoReturnWallet = "real",
                        !.currentWalletType = "demo",
                        !.forceDemo = TRUE,
                        !.switchDemoActive = TRUE,
                        !.switchDemoStep = s.martingaleStep,
                        !.allowAutoSwitch = FALSE,
                        !.lastBidWasSwitchDemo = TRUE])
       ELSE IF ~s.config.autoSwitchDemo THEN stop(s)
       ELSE StopProfitRule(s)
  ELSE StopProfitRule(s)

applyRiskRules(s) ==
  IF s.skipStopLossOnce THEN StopProfitRule([s EXCEPT !.skipStopLossOnce = FALSE])
  ELSE IF ~s.switchDemoActive /\ s.config.stopLoss > 0
          /\ s.martingaleStep > s.config.stopLoss
  THEN IF shouldSwitchToDemo(s) /\ s.allowAutoSwitch
       THEN persistBotState(
              [s EXCEPT !.switchDemoReturnWallet = "real",
                        !.currentWalletType = "demo",
                        !.forceDemo = TRUE,
                        !.switchDemoActive = TRUE,
                        !.switchDemoStep = s.martingaleStep,
                        !.allowAutoSwitch = FALSE,
                        !.lastBidWasSwitchDemo = TRUE])
       ELSE IF ~s.config.autoSwitchDemo THEN stop(s)
       ELSE StopProfitRule(s)
  ELSE StopProfitRule(s)

refreshProfitFromApi(s, demoTotal, realTotal) ==
  [s EXCEPT !.profitDemo = demoTotal, !.profitReal = realTotal]

\* A candle is its colour: "green" (close > open), "red" (close < open) or
\* "doji".  candles.colours are the colours of the fetched candles, oldest
\* first; candles.band is what the Bollinger rules of Flash 5st give.
Colours == {"green", "red", "doji"}

ColourTrend(c) == IF c = "green" THEN "call" ELSE IF c = "red" THEN "put" ELSE NoTrend

\* the colour of the latest candle of a fetch
Latest(candles) ==
  IF candles.colours = <<>> THEN "none" ELSE candles.colours[Len(candles.colours)]

\* the trend and the engine after the call (Momentum keeps a timestamp)
computeTrend(s, candles) ==
  LET cs == candles.colours
      n == Len(cs)
  IN  IF n < 1 THEN [trend |-> NoTrend, s |-> s]
      ELSE IF s.config.strategy = "Momentum"
      THEN IF n < 2 THEN [trend |-> NoTrend, s |-> s]
           ELSE IF cs[n - 1] = cs[n] /\ cs[n] # "doji"
           THEN [trend |-> ColourTrend(cs[n]),
                 s |-> [s EXCEPT !.momentumNoSignalSince = "null"]]
           ELSE IF s.momentumNoSignalSince = "null"
           THEN [trend |-> NoTrend, s |-> [s EXCEPT !.momentumNoSignalSince = "recent"]]
           ELSE IF s.momentumNoSignalSince = "old" /\ cs[n] # "doji"
           THEN [trend |-> ColourTrend(cs[n]),
                 s |-> [s EXCEPT !.momentumNoSignalSince = "null"]]
           ELSE [trend |-> NoTrend, s |-> s]
      ELSE IF s.config.strategy = "Fast"
      THEN IF cs[n] # "doji" THEN [trend |-> ColourTrend(cs[n]), s |-> s]
           ELSE IF n >= 2 /\ cs[n - 1] # "doji"
           THEN [trend |-> ColourTrend(cs[n - 1]), s |-> s]
           ELSE [trend |-> IF s.lastFastBidTrend # NoTrend THEN s.lastFastBidTrend
                           ELSE s.lastSignalTrend,
                 s |-> s]
      ELSE IF s.config.strategy = "Flash 5st"
      THEN [trend |-> candles.band, s |-> s]
      ELSE [trend |-> NoTrend, s |-> s]

\* deals: the deals both history requests returned, demo first; each is
\* [status, win, created], win -1 standing for a deal without a win value.
\* The index of the deal the descending (stable) sort by created puts first.
LastDeal(deals) ==
  CHOOSE i \in 1..Len(deals) :
    \A j \in 1..Len(deals) :
      deals[j].created < deals[i].created \/ (deals[j].created = deals[i].created /\ i <= j)

\* safeNumber of a deal's win: Number(null) is 0, and Number(undefined) is
\* NaN, for which null comes back (-1 again).  -2 stands for a win of null.
safeNumber(win) == IF win = -2 THEN 0 ELSE win

ResumeFromLastDeal(s, deals) ==
  IF deals = <<>> THEN NoResume
  ELSE LET lastDeal == deals[LastDeal(deals)]
           winValue == safeNumber(lastDeal.win)
       IN  IF winValue = 0
           THEN [shouldResume |-> TRUE, resumeStep |-> s.lastBidStep + 1,
                 reason |-> "LAST_BID_LOST"]
           ELSE IF winValue > 0 /\ s.lastBidWasSwitchDemo
           THEN [shouldResume |-> TRUE, resumeStep |-> s.lastBidStep + 1,
                 reason |-> "LAST_BID_WON_IN_SWITCH_DEMO"]
           ELSE NoResume

computeResumeStateLastDealOnly(s, deals) == ResumeFromLastDeal(s, deals)

computeResumeState(s, deals) ==
  IF \E i \in 1..Len(deals) : deals[i].status = "opened"
  THEN [shouldResume |-> TRUE, resumeStep |-> s.lastBidStep + 1, reason |-> "UNCLOSED_BID"]
  ELSE ResumeFromLastDeal(s, deals)

checkResumeState(s, deals) ==
  LET s1 == loadBotState(s)
      state == computeResumeState(s1, deals)
  IN  [s1 EXCEPT !.pendingResumeState = IF state.shouldResume THEN state ELSE NoResume,
                 !.lastCheck = [called |-> TRUE, deals |-> deals, state |-> state]]

applyResumeState(s, state) ==
  IF ~state.shouldResume THEN s
  ELSE IF state.reason \in {"UNCLOSED_BID", "LAST_BID_LOST"}
  THEN [s EXCEPT !.martingaleStep = Min(clampStep(s, state.resumeStep), MAX_K_STEP),
                 !.repeatStep = 0, !.shouldUseSignal = TRUE]
  ELSE IF state.reason = "LAST_BID_WON_IN_SWITCH_DEMO"
  THEN [s EXCEPT !.forceDemo = FALSE, !.currentWalletType = s.config.walletType,
                 !.allowAutoSwitch = FALSE, !.martingaleStep = 0, !.lossStreak = 0]
  ELSE s

\* ------------------------------------------------------------------------
\* BotService: start and scheduling
\* ------------------------------------------------------------------------
RECURSIVE ScheduleSignals(_, _)
ScheduleSignals(s, signals) ==
  IF signals = <<>> THEN s
  ELSE ScheduleSignals(AddTask(s, Task("signal", Head(signals))), Tail(signals))

scheduleStrategy(s) ==
  IF s.config.strategy = "Signal" THEN ScheduleSignals(s, s.config.signals)
  ELSE IF s.config.strategy = "Fast"
  THEN IF s.fastInitialSent THEN s ELSE AddTask(s, Task("fastInitial", NoTrend))
  ELSE AddTask(s, Task("tick", NoTrend))

\* start() up to the first wait of connectSockets.  resumeState is the
\* argument of the call, tokenOk whether the stored auth holds a token.
startBegin(s, resumeState, tokenOk) ==
  LET s1 == IF resumeState.shouldResume THEN loadBotState(s) ELSE s
      s2 == [BotFields(s.config) EXCEPT
               !.status = "starting",
               !.tradeSocket = s.tradeSocket, !.streamSocket = s.streamSocket,
               !.balanceReal = s.balanceReal, !.balanceDemo = s.balanceDemo,
               !.userCurrency = s.userCurrency,
               !.currentWalletType = s.currentWalletType,
               !.lastSignalTrend =
                  IF resumeState.shouldResume THEN s1.lastSignalTrend ELSE NoTrend,
               !.lastFastBidTrend =
                  IF resumeState.shouldResume THEN s1.lastSignalTrend ELSE NoTrend,
               !.pendingResumeState = resumeState,
               !.disconnecting = s.disconnecting,
               !.reconnectTimer = s.reconnectTimer,
               !.tasks = s.tasks,
               !.brokerBalance = s.brokerBalance,
               !.store = IF resumeState.shouldResume THEN s.store ELSE NoStore,
               !.run = s.run + 1,
               !.startResume = resumeState]
  IN  IF ~tokenOk THEN [s2 EXCEPT !.status = "error"]
      ELSE IF s2.config.strategy = "Signal" /\ s2.config.signals = <<>>
      THEN [s2 EXCEPT !.status = "error"]
      ELSE [s2 EXCEPT !.currentWalletType = s2.config.walletType,
                      !.userCurrency = s2.config.currency,
                      !.tradeSocket = "connecting", !.streamSocket = "null",
                      !.disconnecting = TRUE, !.startPc = "waitTrade"]

\* the socket's open event: onOpen, and the waiting start() goes on
onOpen(s, ch) ==
  IF ch = "trade"
  THEN LET s1 == AddTask([s EXCEPT !.tradeSocket = "open", !.tradeReady = FALSE],
                         Task("join", "trade"))
       IN  IF s1.startPc = "waitTrade"
           THEN [s1 EXCEPT !.streamSocket = "connecting", !.startPc = "waitStream"]
           ELSE s1
  ELSE LET s1 == AddTask([s EXCEPT !.streamSocket = "open", !.streamReady = FALSE],
                         Task("join", "stream"))
       IN  IF s1.startPc = "waitStream"
           THEN [s1 EXCEPT !.startPc = "refresh", !.disconnecting = FALSE]
           ELSE s1

\* the end of joinTopics for the socket the task t was started on
joinFinished(s, t) ==
  LET isStream == t.x = "stream" /\ t.run = s.run /\ s.streamSocket # "null"
      s1 == IF isStream THEN [s EXCEPT !.streamReady = TRUE]
            ELSE [s EXCEPT !.tradeReady = TRUE]
  IN  maybeStartFlashInitialBid(maybeStartFastInitialBid(s1))

\* start() after connectSockets: balances, profit, resume, schedule
startFinish(s, demoTotal, realTotal) ==
  LET s1 == [s EXCEPT !.balanceReal = s.brokerBalance, !.balanceDemo = s.brokerBalance]
      s2 == refreshProfitFromApi(s1, demoTotal, realTotal)
      s3 == applyResumeState(s2, s2.startResume)
      s4 == scheduleStrategy(maybeStartFlashInitialBid(s3))
  IN  [s4 EXCEPT !.status = "running", !.startPc = "none"]

\* ------------------------------------------------------------------------
\* The in-process controller as a state machine
\* ------------------------------------------------------------------------
MaxRuns == 1

MaxOpen == 1

MaxKey == 1

OpenRate == 10

EndRates == {OpenRate - 1, OpenRate, OpenRate + 1}

Uuids == {"u1", "u2"}

\* amounts the balance and the history requests may report
BalanceChoices == {WZero, W(50)}

ProfitChoices == {0, 100}

CandleChoices ==
  {[colours |-> cs, band |-> b] :
     cs \in {<<>>, <<"red">>, <<"green">>, <<"doji", "doji">>, <<"red", "red">>,
             <<"green", "doji">>},
     b \in {NoTrend}}
  \cup {[colours |-> <<"green", "red">>, band |-> b] : b \in {"call", "put", NoTrend}}

DealChoices ==
  {<<>>,
   <<[status |-> "opened", win |-> -1, created |-> 2]>>,
   <<[status |-> "closed", win |-> 0, created |-> 1]>>,
   <<[status |-> "closed", win |-> 1, created |-> 1]>>,
   <<[status |-> "closed", win |-> 1, created |-> 2],
     [status |-> "opened", win |-> -1, created |-> 1]>>,
   <<[status |-> "closed", win |-> 0, created |-> 1],
     [status |-> "closed", win |-> 1, created |-> 1]>>}

DefaultConfig ==
  [strategy |-> "Fast", walletType |-> "real", currency |-> "USD", bidAmount |-> 1,
   martingale |-> 130, maxMartingale |-> 1, resetMartingale |-> 2, stopLoss |-> 1,
   stopProfitAfter |-> 1, autoSwitchDemo |-> TRUE, signals |-> <<"call", "put">>]

\* the configurations of the runs (Fast, Signal)
Configs ==
  {DefaultConfig,
   [DefaultConfig EXCEPT !.strategy = "Signal"],
   [DefaultConfig EXCEPT !.autoSwitchDemo = FALSE],
   [DefaultConfig EXCEPT !.bidAmount = 0],
   [DefaultConfig EXCEPT !.bidAmount = 6000]}

\* what an earlier session of the app may have left in storage
StoreChoices ==
  {NoStore,
   [present |-> TRUE, lastStep |-> 2, lastWasSwitchDemo |-> TRUE, lastTrend |-> "put"]}

Idle == [op |-> "idle"]

Init ==
  /\ bot \in {[BotFields(c) EXCEPT !.brokerBalance = b, !.store = st] :
                c \in Configs, b \in BalanceChoices, st \in StoreChoices}
  /\ eng = Idle
  /\ fn = Idle

Connected(s) == s.tradeSocket = "open" \/ s.streamSocket = "open"

\* sent, lastCheck and settled describe the step that led to a state: every
\* step starts from the engine with them cleared
Was(s) == [s EXCEPT !.sent = NoSend, !.lastCheck = NoCheck, !.settled = NoSettle]

CheckResume ==
  /\ bot.status \notin {"running", "starting"}
  /\ \E deals \in DealChoices : bot' = checkResumeState(Was(bot), deals)
  /\ UNCHANGED <<eng, fn>>

Start ==
  /\ bot.status \notin {"running", "starting"}
  /\ bot.run < MaxRuns
  /\ \E resume \in BOOLEAN, tokenOk \in BOOLEAN :
       bot' = startBegin(bot, IF resume THEN bot.pendingResumeState ELSE NoResume, tokenOk)
  /\ UNCHANGED <<eng, fn>>

SocketOpens ==
  /\ \E ch \in {"trade", "stream"} :
       /\ (IF ch = "trade" THEN bot.tradeSocket ELSE bot.streamSocket) = "connecting"
       /\ bot' = onOpen(Was(bot), ch)
  /\ UNCHANGED <<eng, fn>>

\* waitForSocketOpen rejects: start() throws and leaves the status as it is
ConnectFails ==
  /\ bot.startPc \in {"waitTrade", "waitStream"}
  /\ bot' = [Was(bot) EXCEPT !.startPc = "none",
                        !.tradeSocket = IF @ = "connecting" THEN "closed" ELSE @,
                        !.streamSocket = IF @ = "connecting" THEN "closed" ELSE @]
  /\ UNCHANGED <<eng, fn>>

JoinFinishes ==
  /\ \E t \in BagToSet(bot.tasks) :
       /\ t.k = "join"
       /\ bot' = joinFinished(DelTask(Was(bot), t), t)
  /\ UNCHANGED <<eng, fn>>

StartFinishes ==
  /\ bot.startPc = "refresh"
  /\ \E profit \in ProfitChoices :
       bot' = startFinish(Was(bot), profit, profit)
  /\ UNCHANGED <<eng, fn>>

Stop ==
  /\ bot.status \in {"starting", "running"}
  /\ bot' = stop(Was(bot))
  /\ UNCHANGED <<eng, fn>>

\* the reply to a create carries the uuid of the new deal, or none when the
\* broker refuses it; the reply to the join of topic bo carries none
PhxReply ==
  /\ Connected(bot)
  /\ \/ /\ bot.unacked > 0
        /\ \E uuid \in Uuids \cup {""} :
             /\ ~SeqHas(bot.pendingUUIDs, uuid)
             /\ bot' = OnPhxReply([Was(bot) EXCEPT !.unacked = @ - 1], uuid)
     \/ /\ bot.unacked = 0
        /\ bot.bidInFlightUntil # "null"
        /\ bot' = OnPhxReply(Was(bot), "")
  /\ UNCHANGED <<eng, fn>>

\* the broker opens the deals it has acknowledged; an opened frame may come
\* again, or name a deal of another session
Opened ==
  /\ Connected(bot)
  /\ Len(bot.openedBids) < MaxOpen
  /\ \E uuid \in Uuids, closeAt \in 0..MaxKey :
       bot' = OnOpened(Was(bot), uuid, closeAt, OpenRate, bot.lastSignalTrend)
  /\ UNCHANGED <<eng, fn>>

CloseDealBatch ==
  /\ Connected(bot)
  /\ \E key \in 0..MaxKey, endRate \in EndRates :
       bot' = handleCloseDealBatch(Was(bot), key, endRate)
  /\ UNCHANGED <<eng, fn>>

BalanceChanged ==
  /\ Connected(bot)
  /\ \E accountType \in {"real", "demo"} :
       bot' = OnBalanceChanged(Was(bot), accountType, bot.brokerBalance)
  /\ UNCHANGED <<eng, fn>>

\* handleCloseDealBatch after its await: the refreshed profit, the risk rules
RiskRules ==
  /\ \E t \in BagToSet(bot.tasks), profit \in ProfitChoices :
       /\ t.k = "risk"
       /\ bot' = applyRiskRules(refreshProfitFromApi(DelTask(Was(bot), t), profit, profit))
  /\ UNCHANGED <<eng, fn>>

SignalTimer ==
  /\ \E t \in BagToSet(bot.tasks), atZero \in BOOLEAN :
       /\ t.k = "signal"
       /\ bot' = queueBidAtSecondZero(DelTask(Was(bot), t), t.x, atZero, "signal")
  /\ UNCHANGED <<eng, fn>>

AlignedTimer ==
  /\ \E t \in BagToSet(bot.tasks) :
       /\ t.k = "aligned"
       /\ bot' = sendBid(DelTask(Was(bot), t), t.x, FALSE, "aligned")
  /\ UNCHANGED <<eng, fn>>

FastInitialTimer ==
  /\ \E t \in BagToSet(bot.tasks) :
       /\ t.k = "fastInitial"
       /\ bot' = maybeStartFastInitialBid(DelTask(Was(bot), t))
  /\ UNCHANGED <<eng, fn>>

\* maybeStartFastInitialBid after the candle fetch (ok = FALSE: it threw)
FastInitialBid ==
  /\ \E t \in BagToSet(bot.tasks), candles \in CandleChoices, ok \in BOOLEAN :
       /\ t.k = "fastInitialFetch"
       /\ LET s == DelTask(Was(bot), t)
              r == computeTrend(s, candles)
          IN  bot' = IF ~ok \/ r.trend = NoTrend THEN s
                     ELSE [sendBid(r.s, r.trend, TRUE, "initial") EXCEPT
                             !.sent.candle = Latest(candles)]
  /\ UNCHANGED <<eng, fn>>

\* queueFastReentry after the candle fetch
FastReentry ==
  /\ \E t \in BagToSet(bot.tasks), candles \in CandleChoices, ok \in BOOLEAN :
       /\ t.k = "reentry"
       /\ LET s == DelTask(Was(bot), t)
              r == computeTrend(s, candles)
              fallback == IF s.lastSignalTrend # NoTrend THEN s.lastSignalTrend
                          ELSE IF s.lastFastBidTrend # NoTrend THEN s.lastFastBidTrend
                          ELSE t.x
          IN  bot' = IF ~ok THEN s
                     ELSE IF r.trend = NoTrend
                     THEN (IF ~CanRepeat(s) THEN s
                           ELSE sendBid(s, fallback, TRUE, "reentry"))
                     ELSE [sendBid(r.s, r.trend, TRUE, "reentry") EXCEPT
                             !.sent.candle = Latest(candles)]
  /\ UNCHANGED <<eng, fn>>

\* the clock passes a deadline the engine compares Date.now() with
TimePasses ==
  /\ \/ /\ bot.bidInFlightUntil = "future"
        /\ bot' = [Was(bot) EXCEPT !.bidInFlightUntil = "past"]
     \/ /\ bot.lastBidAt = "short"
        /\ bot' = [Was(bot) EXCEPT !.lastBidAt = "long"]
     \/ /\ bot.momentumNoSignalSince = "recent"
        /\ bot' = [Was(bot) EXCEPT !.momentumNoSignalSince = "old"]
  /\ UNCHANGED <<eng, fn>>

Next ==
  \/ CheckResume \/ Start \/ SocketOpens \/ ConnectFails \/ JoinFinishes
  \/ StartFinishes \/ Stop
  \/ PhxReply \/ Opened \/ CloseDealBatch \/ BalanceChanged \/ RiskRules
  \/ SignalTimer \/ AlignedTimer \/ FastInitialTimer \/ FastInitialBid
  \/ FastReentry \/ TimePasses

Spec == Init /\ [][Next]_vars

\* ------------------------------------------------------------------------
\* Functions applied on their own: fn holds the arguments, then the result
\* ------------------------------------------------------------------------
RateMax == 5

MaxChunks == 3

MaxCalcStep == 4

Engines == {"controller", "native"}

Parked == BotFields(DefaultConfig)

\* BotEngine.resolveOutcome
nativeResolveOutcome(trend, openRate, closeRate) ==
  IF closeRate = openRate THEN "tie"
  ELSE IF trend = "call" THEN (IF closeRate > openRate THEN "win" ELSE "loss")
  ELSE (IF closeRate < openRate THEN "win" ELSE "loss")

InitOutcome ==
  /\ bot = Parked
  /\ eng = Idle
  /\ fn \in [op : {"resolveOutcome"}, engine : Engines, trend : Trends,
             openRate : 0..RateMax, closeRate : 0..RateMax,
             done : {FALSE}, out : {"none"}]

ApplyOutcome ==
  /\ fn.op = "resolveOutcome" /\ ~fn.done
  /\ fn' = [fn EXCEPT !.done = TRUE,
                      !.out = IF fn.engine = "controller"
                              THEN resolveOutcome(fn.trend, fn.openRate, fn.closeRate)
                              ELSE nativeResolveOutcome(fn.trend, fn.openRate, fn.closeRate)]
  /\ UNCHANGED <<bot, eng>>

SpecOutcome == InitOutcome /\ [][ApplyOutcome]_vars

\* totals above maxBid: k * maxBid plus an offset around the bounds
SplitOffsets(currency) ==
  LET mn == minBidOf(currency)
      mx == maxBidOf(currency)
  IN  <<W(1), WSub(mn, W(1)), mn, WAdd(mn, W(1)), WSub(mx, mn), WSub(mx, W(1)), mx>>

\* in the native engine the IDR maximum is what Int makes of it, so there
\* the totals are the valid IDR amounts from the minimum upwards
SplitTotal(engine, currency, k, d) ==
  IF engine = "native" /\ currency = "IDR"
  THEN WAdd(WMul(nativeMinBidOf(currency), k), W(d - 1))
  ELSE WAdd(WMul(maxBidOf(currency), k), SplitOffsets(currency)[d])

SplitMin(engine, currency) ==
  IF engine = "native" THEN nativeMinBidOf(currency) ELSE minBidOf(currency)

SplitMax(engine, currency) ==
  IF engine = "native" THEN nativeMaxBidOf(currency) ELSE maxBidOf(currency)

InitSplit ==
  /\ bot = Parked
  /\ eng = Idle
  /\ fn \in [op : {"splitBidAmounts"}, engine : Engines, currency : Currencies,
             k : 1..MaxChunks, d : 1..7, done : {FALSE},
             out : {[ended |-> TRUE, chunks |-> <<>>]}]

ApplySplit ==
  /\ fn.op = "splitBidAmounts" /\ ~fn.done
  /\ LET total == SplitTotal(fn.engine, fn.currency, fn.k, fn.d)
         mn == SplitMin(fn.engine, fn.currency)
         mx == SplitMax(fn.engine, fn.currency)
     IN  fn' = [fn EXCEPT !.done = TRUE,
                          !.out = IF fn.engine = "controller"
                                  THEN splitBidAmounts(total, mn, mx, MaxSplitIter)
                                  ELSE nativeSplitBidAmounts(total, mn, mx, MaxSplitIter)]
  /\ UNCHANGED <<bot, eng>>

SpecSplit == InitSplit /\ [][ApplySplit]_vars

BaseChoices(currency) ==
  IF currency = "IDR" THEN {0, 13999, 14000, 4000000} ELSE {0, 1, 300}

PercentChoices == {0, 50, 101, 200}

ResetChoices == {-1, 0, 2}

\* a running engine with both channels ready, holding the fields
\* calculateBidAmounts and sendBid read
ReadyBot(f, step) ==
  [BotFields([DefaultConfig EXCEPT !.strategy = "Signal", !.currency = f.currency,
                                   !.bidAmount = f.base, !.martingale = f.percent,
                                   !.resetMartingale = f.reset])
     EXCEPT !.status = "running", !.run = 1,
            !.tradeSocket = "open", !.streamSocket = "open",
            !.tradeReady = TRUE, !.streamReady = TRUE,
            !.userCurrency = f.currency,
            !.currentWalletType = IF f.switchDemo THEN "demo" ELSE "real",
            !.martingaleStep = step,
            !.switchDemoActive = f.switchDemo, !.forceDemo = f.switchDemo,
            !.balanceReal = f.balance, !.balanceDemo = f.balance]

NoCalc == [amounts |-> <<>>, error |-> "none", stop |-> FALSE]

InitCalc ==
  /\ bot = Parked
  /\ eng = Idle
  /\ fn \in {[op |-> "sendBid", currency |-> c, base |-> b, percent |-> p, reset |-> r,
              step |-> st, switchDemo |-> sd, balance |-> bal, done |-> FALSE,
              calc |-> NoCalc, calcNext |-> NoCalc, sent |-> NoSend, status |-> "running"] :
               c \in Currencies, b \in UNION {BaseChoices(x) : x \in Currencies},
               p \in PercentChoices, r \in ResetChoices, st \in 0..MaxCalcStep,
               sd \in BOOLEAN, bal \in BalanceChoices}
  /\ fn.base \in BaseChoices(fn.currency)

\* calculateBidAmounts at the step and at the next one, and a sendBid call
ApplyCalc ==
  /\ fn.op = "sendBid" /\ ~fn.done
  /\ LET s == ReadyBot(fn, fn.step)
         after == sendBid(s, "call", FALSE, "signal")
     IN  fn' = [fn EXCEPT !.done = TRUE,
                          !.calc = calculateBidAmounts(s),
                          !.calcNext = calculateBidAmounts(ReadyBot(fn, fn.step + 1)),
                          !.sent = after.sent,
                          !.status = after.status]
  /\ UNCHANGED <<bot, eng>>

SpecCalc == InitCalc /\ [][ApplyCalc]_vars

\* ------------------------------------------------------------------------
\* Claims about the functions
\* ------------------------------------------------------------------------
InBounds(amounts, mn, mx) ==
  \A i \in 1..Len(amounts) : WLe(mn, amounts[i]) /\ WLe(amounts[i], mx)

\* C5: for each currency table and every total above maxBid, the chunks
\* splitBidAmounts returns sum to the total, none is above maxBid, none is
\* below minBid, and the loop ends.
C5_SplitChunksSumWithinBounds ==
  (fn.op = "splitBidAmounts" /\ fn.done) =>
    LET total == SplitTotal(fn.engine, fn.currency, fn.k, fn.d)
        mn == SplitMin(fn.engine, fn.currency)
        mx == SplitMax(fn.engine, fn.currency)
    IN  WLt(mx, total) =>
          /\ fn.out.ended
          /\ WSum(fn.out.chunks) = total
          /\ InBounds(fn.out.chunks, mn, mx)

\* C6: every amount calculateBidAmounts returns is within [minBid, maxBid];
\* when the computed amount is <= 0 or below minBid it reports an error and
\* returns the empty list, and sendBid then transmits nothing.
C6_AmountsWithinBoundsOrNothingSent ==
  (fn.op = "sendBid" /\ fn.done) =>
    LET mn == minBidOf(fn.currency)
        mx == maxBidOf(fn.currency)
        rawAmount == RawAmount(fn.base, fn.percent,
                               EffectiveStep(fn.step, fn.switchDemo, fn.reset))
    IN  /\ InBounds(fn.calc.amounts, mn, mx)
        /\ InBounds(fn.sent.amounts, mn, mx)
        /\ (WLe(rawAmount, WZero) \/ WLt(rawAmount, mn)) =>
             /\ fn.calc.amounts = <<>>
             /\ fn.calc.error \in {"le0", "min"}
             /\ fn.sent.called
             /\ fn.sent.creates = 0
             /\ fn.sent.error = fn.calc.error

C6_BelowMinimumNothingSent ==
  /\ fn.op = "sendBid" /\ fn.done
  /\ fn.base = 13999 /\ fn.currency = "IDR" /\ fn.switchDemo
  /\ fn.calc.error = "min"
  /\ fn.sent.called /\ fn.sent.creates = 0

C8_OutcomeRule ==
  (fn.op = "resolveOutcome" /\ fn.done) =>
    /\ fn.out \in {"tie", "win", "loss"}
    /\ (fn.out = "tie") <=> (fn.closeRate = fn.openRate)
    /\ (fn.out = "win") <=>
         \/ (fn.trend = "call" /\ fn.closeRate > fn.openRate)
         \/ (fn.trend = "put" /\ fn.closeRate < fn.openRate)

C8_PutWinsBelowOpen ==
  /\ fn.op = "resolveOutcome" /\ fn.done
  /\ fn.trend = "put" /\ fn.closeRate < fn.openRate
  /\ fn.out = "win"

\* C17: whenever the balance of the target wallet is known and positive and
\* the computed (valid) bid amount exceeds it, sendBid transmits no create
\* and the engine stops, also when the amount exceeds the per-currency
\* maximum and is split into chunks.
C17_OverBalanceNothingSent ==
  (fn.op = "sendBid" /\ fn.done) =>
    LET rawAmount == RawAmount(fn.base, fn.percent,
                               EffectiveStep(fn.step, fn.switchDemo, fn.reset))
    IN  (WLt(WZero, fn.balance) /\ WLt(fn.balance, rawAmount)
           /\ WLe(minBidOf(fn.currency), rawAmount)) =>
          (fn.sent.creates = 0 /\ fn.status = "stopped")


\* the fetched history holds an unclosed deal
HasOpened(deals) == \E i \in 1..Len(deals) : deals[i].status = "opened"

\* C9: whenever the deal history checkResumeState fetched contains a deal
\* with status "opened", it returns shouldResume = TRUE, reason UNCLOSED_BID
\* and resumeStep = persisted lastStep + 1 (0 + 1 when nothing is persisted),
\* whatever the last closed deal and the persisted switch-demo flag.
C9_OpenedDealMeansUnclosedBid ==
  (bot.lastCheck.called /\ HasOpened(bot.lastCheck.deals)) =>
    bot.lastCheck.state =
      [shouldResume |-> TRUE,
       resumeStep |-> (IF bot.store.present THEN bot.store.lastStep ELSE 0) + 1,
       reason |-> "UNCLOSED_BID"]

\* an opened deal behind a more recent won deal, with the switch-demo flag
\* persisted: the check still answers UNCLOSED_BID at step 2 + 1
C9_OpenedBehindWonDeal ==
  /\ bot.lastCheck.called
  /\ HasOpened(bot.lastCheck.deals)
  /\ bot.lastCheck.deals[LastDeal(bot.lastCheck.deals)].win > 0
  /\ bot.store.present /\ bot.store.lastWasSwitchDemo /\ bot.store.lastStep = 2
  /\ bot.lastCheck.state.reason = "UNCLOSED_BID"
  /\ bot.lastCheck.state.resumeStep = 3


C11_NoCreateWhileUnacknowledged ==
  bot.sent.creates > 0 =>
    (bot.unacked = bot.sent.creates /\ ~bot.sent.guardOpen)



\* ------------------------------------------------------------------------
\* The martingale ladder: a started engine fed opened / close_deal_batch
\* frames, each batch under a new key, up to MaxBatches batches
\* ------------------------------------------------------------------------
MaxBatches == 104

LadderResets == {-1, 0, 2, 150}

LadderConfigs ==
  {[DefaultConfig EXCEPT !.strategy = "Signal", !.stopProfitAfter = 0,
                         !.resetMartingale = n, !.stopLoss = sl] :
     n \in LadderResets, sl \in {0, 1}}

\* what the last session left: nothing, a bid at step 2, a bid at the ceiling
LadderStores ==
  {NoStore,
   [present |-> TRUE, lastStep |-> 2, lastWasSwitchDemo |-> FALSE, lastTrend |-> "call"],
   [present |-> TRUE, lastStep |-> MAX_K_STEP, lastWasSwitchDemo |-> FALSE,
    lastTrend |-> "call"]}

\* a start that goes through: the resume check when asked for (the history
\* holds an unclosed deal), start(), both sockets open, both joins, the end
\* of start()
LadderStart(c, st, resume) ==
  LET s0 == [BotFields(c) EXCEPT !.store = st, !.brokerBalance = W(50)]
      s1 == IF resume
            THEN checkResumeState(s0, <<[status |-> "opened", win |-> -1, created |-> 1]>>)
            ELSE s0
      s2 == startBegin(s1, IF resume THEN s1.pendingResumeState ELSE NoResume, TRUE)
      s3 == onOpen(onOpen(s2, "trade"), "stream")
      tj == [k |-> "join", x |-> "trade", run |-> s3.run]
      sj == [k |-> "join", x |-> "stream", run |-> s3.run]
      s4 == joinFinished(DelTask(s3, tj), tj)
      s5 == joinFinished(DelTask(s4, sj), sj)
  IN  Was(startFinish(s5, 0, 0))

InitLadder ==
  /\ bot \in {LadderStart(c, st, resume) :
                c \in LadderConfigs, st \in LadderStores, resume \in BOOLEAN}
  /\ eng = Idle
  /\ fn = Idle

NextKey(s) ==
  IF s.processedBatches = <<>> THEN 1
  ELSE s.processedBatches[Len(s.processedBatches)] + 1

RiskPending(s) == \E t \in BagToSet(s.tasks) : t.k = "risk"

LadderOpened ==
  /\ bot.status = "running"
  /\ bot.openedBids = <<>>
  /\ ~RiskPending(bot)
  /\ NextKey(bot) <= MaxBatches
  /\ bot' = OnOpened(Was(bot), "", NextKey(bot), OpenRate, "call")
  /\ UNCHANGED <<eng, fn>>

LadderClose ==
  /\ bot.openedBids # <<>>
  /\ \E endRate \in EndRates :
       bot' = handleCloseDealBatch(Was(bot), NextKey(bot), endRate)
  /\ UNCHANGED <<eng, fn>>

LadderRisk ==
  /\ \E t \in BagToSet(bot.tasks) :
       /\ t.k = "risk"
       /\ bot' = applyRiskRules(refreshProfitFromApi(DelTask(Was(bot), t), 0, 0))
  /\ UNCHANGED <<eng, fn>>

NextLadder == LadderOpened \/ LadderClose \/ LadderRisk

SpecLadder == InitLadder /\ [][NextLadder]_vars


\* C3: for resetMartingale = N >= 0 the step never exceeds min(N, 100) after
\* a fresh or a resumed start and any settlements and switch-demo entries and
\* exits; with N = 0 it is always 0.
C3_StepAtMostReset ==
  bot.config.resetMartingale >= 0 =>
    bot.martingaleStep <= Min(bot.config.resetMartingale, MAX_K_STEP)

\* a ladder with N = 150 has climbed to the ceiling by 100 losses in a row
C3_CeilingBelowReset ==
  /\ bot.config.resetMartingale = 150
  /\ bot.martingaleStep = MAX_K_STEP
  /\ bot.lossStreak = MAX_K_STEP
  /\ bot.settled.result = "loss"

\* C4: with a negative resetMartingale every loss settled outside
\* switch-demo raises the step by exactly 1 until it is 100, where it stays;
\* and 0 <= martingaleStep <= 100 in every reachable state of every
\* configuration.
C4_NegativeResetClimbsToCeiling ==
  /\ [](bot.martingaleStep >= 0 /\ bot.martingaleStep <= MAX_K_STEP)
  /\ [][(bot.config.resetMartingale < 0 /\ bot'.settled.called
          /\ bot'.settled.result = "loss" /\ ~bot'.settled.switchDemo) =>
         bot'.martingaleStep = Min(bot.martingaleStep + 1, MAX_K_STEP)]_vars

\* a loss settled at the ceiling of a ladder with a negative reset
C4_LossAtCeiling ==
  /\ bot.config.resetMartingale < 0
  /\ bot.martingaleStep = MAX_K_STEP
  /\ bot.lossStreak = MAX_K_STEP + 1
  /\ bot.settled.result = "loss" /\ ~bot.settled.switchDemo


\* ------------------------------------------------------------------------
\* Redelivered batches: a started engine fed opened and close_deal_batch
\* frames.  New batches carry the keys 1, 2, ... in order (fn.clock is the
\* latest), an opened frame names the next batch or the long closed batch 1,
\* and a redelivery repeats batch 1 or the latest batch.
\* ------------------------------------------------------------------------
MaxRedeliver == 2

DedupeConfig ==
  [DefaultConfig EXCEPT !.strategy = "Signal", !.stopProfitAfter = 0]

NoDelivery == [op |-> "dedupe", clock |-> 0, redeliveries |-> 0, key |-> 0,
               seen |-> FALSE, matched |-> FALSE]

InitDedupe ==
  /\ bot \in {LadderStart(DedupeConfig, st, FALSE) : st \in {NoStore}}
  /\ eng = Idle
  /\ fn = NoDelivery

Tracked(s, key) == \E i \in 1..Len(s.openedBids) : s.openedBids[i].closeAt = key

DedupeOpened ==
  /\ bot.openedBids = <<>>
  /\ ~RiskPending(bot)
  /\ fn.clock < MaxBatches
  /\ \E closeAt \in {1, fn.clock + 1} :
       bot' = OnOpened(Was(bot), "", closeAt, OpenRate, "call")
  /\ fn' = [fn EXCEPT !.key = 0, !.seen = FALSE, !.matched = FALSE]
  /\ UNCHANGED eng

DedupeClose ==
  /\ fn.clock < MaxBatches
  /\ \E endRate \in EndRates :
       bot' = handleCloseDealBatch(Was(bot), fn.clock + 1, endRate)
  /\ fn' = [fn EXCEPT !.clock = @ + 1, !.key = 0, !.seen = FALSE, !.matched = FALSE]
  /\ UNCHANGED eng

DedupeRedeliver ==
  /\ fn.clock >= 1
  /\ fn.redeliveries < MaxRedeliver
  /\ \E key \in {1, fn.clock}, endRate \in EndRates :
       /\ bot' = handleCloseDealBatch(Was(bot), key, endRate)
       /\ fn' = [fn EXCEPT !.redeliveries = @ + 1, !.key = key,
                           !.seen = SeqHas(bot.processedBatches, key),
                           !.matched = Tracked(bot, key)]
  /\ UNCHANGED eng

DedupeRisk ==
  /\ \E t \in BagToSet(bot.tasks) :
       /\ t.k = "risk"
       /\ bot' = applyRiskRules(refreshProfitFromApi(DelTask(Was(bot), t), 0, 0))
  /\ fn' = [fn EXCEPT !.key = 0, !.seen = FALSE, !.matched = FALSE]
  /\ UNCHANGED eng

NextDedupe == DedupeOpened \/ DedupeClose \/ DedupeRedeliver \/ DedupeRisk

SpecDedupe == InitDedupe /\ [][NextDedupe]_vars

\* the ladder state and the switch-demo sub-state
Ladder(s) ==
  <<s.martingaleStep, s.lossStreak, s.repeatStep, s.switchDemoActive, s.switchDemoStep,
    s.switchDemoReturnWallet, s.forceDemo>>

\* C2, as stated: a close_deal_batch delivered a second time, at any later
\* point (also after eviction from the seen-set), leaves martingaleStep,
\* lossStreak, repeatStep and the switch-demo sub-state as they were.
C2_RedeliveryNeverMutates ==
  [][fn'.redeliveries > fn.redeliveries => Ladder(bot') = Ladder(bot)]_vars

\* C2, amended: the redelivery leaves them as they were while its key is
\* still in the seen-set, or when no tracked bid carries its key.
C2_RedeliveryWhileSeenOrUnmatched ==
  [][(fn'.redeliveries > fn.redeliveries /\ (fn'.seen \/ ~fn'.matched)) =>
      Ladder(bot') = Ladder(bot)]_vars

\* batch 1 was redelivered while in the seen-set and a tracked bid named it
C2_RedeliveredWhileSeen ==
  /\ fn.key = 1 /\ fn.seen /\ fn.matched
  /\ Tracked(bot, 1)



\* ------------------------------------------------------------------------
\* The native engine's bidding (BotEngine, src/unnamed/part_006): sendBid
\* runs on the threads of the scheduler pool, handleSocketEvent on the
\* transport threads of the two sockets, and nothing orders a thread's reads
\* and writes of the engine's fields against another thread's.  A sendBid
\* call is therefore three steps: its guards, its transmission and its
\* bookkeeping.  The engine is running with both channels ready and bids of
\* one chunk; the run ends before the first close_deal_batch.  An opened
\* frame comes once on each socket, each on its own transport thread, and
\* pendingUUIDs.remove on the plain set is two steps of such a thread: it
\* finds the entry, then unlinks it.
\* ------------------------------------------------------------------------
NativeThreads == {"pool-1", "pool-2"}

NativeChannels == {"trade", "stream"}

MaxCreates == 2

NativeFields(strategy) ==
  [op |-> "native", strategy |-> strategy, running |-> TRUE,
   tradeReady |-> TRUE, streamReady |-> TRUE,
   pendingUUIDs |-> {}, openedBids |-> <<>>,
   bidInFlightUntil |-> "null", lastBidAt |-> "long",
   repeatStep |-> 0, lastSignalTrend |-> NoTrend,
   pc |-> [t \in NativeThreads |-> "idle"],
   found |-> [ch \in NativeChannels |-> ""],
   acked |-> {}, openedSeen |-> [ch \in NativeChannels |-> {}],
   unacked |-> 0, creates |-> 0, sentOpen |-> FALSE]

InitNative ==
  /\ bot = Parked
  /\ eng \in {NativeFields(st) : st \in {"Signal", "Flash 5st"}}
  /\ fn = Idle

\* sendBid down to calculateBidAmounts: TRUE when no guard returns
nativeGuardsPass(e, bypassInterval) ==
  /\ e.running
  /\ ~(e.strategy # "Signal" /\ ~bypassInterval /\ e.lastBidAt = "short")
  /\ e.bidInFlightUntil # "future"
  /\ e.openedBids = <<>> /\ e.pendingUUIDs = {}
  /\ e.tradeReady /\ e.streamReady

NativeGuards ==
  /\ eng.creates + Cardinality({t \in NativeThreads : eng.pc[t] # "idle"}) < MaxCreates
  /\ \E t \in NativeThreads, trend \in {"call"}, bypassInterval \in BOOLEAN :
       /\ eng.pc[t] = "idle"
       /\ eng' = IF nativeGuardsPass(eng, bypassInterval)
                 THEN [eng EXCEPT !.pc[t] = "send", !.sentOpen = FALSE,
                                  !.lastSignalTrend = trend]
                 ELSE [eng EXCEPT !.sentOpen = FALSE]
  /\ UNCHANGED <<bot, fn>>

\* target?.send(payload) in the loop over the amounts
NativeSend ==
  /\ \E t \in NativeThreads :
       /\ eng.pc[t] = "send"
       /\ eng' = [eng EXCEPT !.pc[t] = "sent",
                             !.unacked = @ + 1, !.creates = @ + 1,
                             !.sentOpen = eng.openedBids # <<>> \/ eng.pendingUUIDs # {}]
  /\ UNCHANGED <<bot, fn>>

\* lastBidAt = now; bidInFlightUntil = now + bidCooldownMs
NativeSent ==
  /\ \E t \in NativeThreads :
       /\ eng.pc[t] = "sent"
       /\ eng' = [eng EXCEPT !.pc[t] = "idle", !.lastBidAt = "short",
                             !.bidInFlightUntil = "future", !.sentOpen = FALSE]
  /\ UNCHANGED <<bot, fn>>

NativePhxReply ==
  /\ eng.unacked > 0
  /\ \E uuid \in Uuids \cup {""} :
       /\ uuid \notin eng.acked
       /\ eng' = [eng EXCEPT !.pendingUUIDs = IF uuid # "" THEN @ \cup {uuid} ELSE @,
                             !.acked = IF uuid # "" THEN @ \cup {uuid} ELSE @,
                             !.bidInFlightUntil = "null",
                             !.unacked = @ - 1, !.sentOpen = FALSE]
  /\ UNCHANGED <<bot, fn>>

\* the opened frame of an acknowledged bid arrives on a socket: the frame is
\* dropped when remove does not find the uuid
NativeOpened ==
  /\ \E ch \in NativeChannels :
       /\ eng.found[ch] = ""
       /\ \E uuid \in eng.acked \ eng.openedSeen[ch] :
            eng' = [eng EXCEPT !.openedSeen[ch] = @ \cup {uuid},
                               !.found[ch] = IF uuid \in eng.pendingUUIDs THEN uuid ELSE "",
                               !.sentOpen = FALSE]
  /\ UNCHANGED <<bot, fn>>

\* remove unlinks the entry it found and the handler adds the OpenedBid
NativeOpenedAdd ==
  /\ \E ch \in NativeChannels :
       /\ eng.found[ch] # ""
       /\ eng' = [eng EXCEPT !.pendingUUIDs = @ \ {eng.found[ch]},
                             !.openedBids = Append(@, eng.found[ch]),
                             !.found[ch] = "",
                             !.bidInFlightUntil = "null", !.sentOpen = FALSE]
  /\ UNCHANGED <<bot, fn>>

NativeTimePasses ==
  /\ eng.bidInFlightUntil = "future" \/ eng.lastBidAt = "short"
  /\ eng' = [eng EXCEPT !.bidInFlightUntil = IF @ = "future" THEN "past" ELSE @,
                        !.lastBidAt = "long", !.sentOpen = FALSE]
  /\ UNCHANGED <<bot, fn>>

NextNative ==
  NativeGuards \/ NativeSend \/ NativeSent \/ NativePhxReply \/ NativeOpened
    \/ NativeOpenedAdd \/ NativeTimePasses

SpecNative == InitNative /\ [][NextNative]_vars

\* C1: sendBid never transmits a bid-create message in a state where
\* openedBids or pendingUUIDs is non-empty.  In the native engine a call
\* that has passed its guards transmits whatever the transport threads have
\* added to the two collections since.
C1_NoCreateWhileBidOutstanding == ~eng.sentOpen

\* the OpenedBids the engine holds for a uuid
NativeOpenedCount(e, uuid) ==
  Cardinality({i \in 1..Len(e.openedBids) : e.openedBids[i] = uuid})

\* C16: an opened event whose uuid is not in the pending set adds no
\* OpenedBid, so an opened event delivered twice for the same uuid (once per
\* channel) produces exactly one OpenedBid.
C16_OneOpenedBidPerUuid ==
  \A uuid \in Uuids : NativeOpenedCount(eng, uuid) <= 1

\* ------------------------------------------------------------------------
\* The controller's connections: a running engine, its sockets and the
\* reconnect path (SpecConn), and the frames they deliver around a stop
\* (SpecFrames).  In this part tradeSocket and streamSocket hold the name
\* of the NativeSocket they refer to ("s1", "s2", ...); fn holds the sockets
\* ever created and the connectSockets calls that wait for one to open.
\* A socket is "new" until the bridge's connect has given it a socketId,
\* then "connecting", "open", "closing" once close() has reached the
\* transport, and at last "closed" (onClosed) or "failed" (onFailure).  up
\* tells whether the transport has opened, unacked counts the creates the
\* broker has still to answer on the socket.  The bridge resolves connect
\* before the 15 s of waitForSocketOpen are over.
\* ------------------------------------------------------------------------
MaxAttempts == 2

SockName(i) == "s" \o ToString(i)

SockIndex(f, name) == CHOOSE i \in 1..Len(f.socks) : SockName(i) = name

NewSock(ch) == [ch |-> ch, st |-> "new", up |-> FALSE, unacked |-> 0]

\* frames reach the handlers of a socket from the open event to the close
\* or error event
Live(x) == x.st = "open" \/ (x.st = "closing" /\ x.up)

\* the engine and the transport together
Conn(b, f) == [bot |-> b, fn |-> f]

\* NativeSocket.close(): nothing without a socketId, and nothing for a
\* socket the bridge no longer holds
closeSocket(f, name) ==
  IF name = "null" THEN f
  ELSE LET i == SockIndex(f, name)
       IN  IF f.socks[i].st \in {"connecting", "open"}
           THEN [f EXCEPT !.socks[i].st = "closing"]
           ELSE f

\* teardownSockets with the close() calls it makes
closeSockets(c) ==
  Conn(teardownSockets(c.bot),
       closeSocket(closeSocket(c.fn, c.bot.tradeSocket), c.bot.streamSocket))

scheduleReconnect(s) ==
  IF s.status # "running" \/ s.reconnectTimer THEN s
  ELSE [s EXCEPT !.reconnectTimer = TRUE]

handleSocketCloseAlways(c) ==
  LET s1 == resetConnectionState(c.bot)
  IN  IF s1.status = "running"
      THEN LET c1 == closeSockets(Conn([s1 EXCEPT !.disconnecting = TRUE], c.fn))
           IN  Conn(scheduleReconnect(c1.bot), c1.fn)
      ELSE Conn(s1, c.fn)

handleSocketClose(c) ==
  LET s1 == resetConnectionState(c.bot)
  IN  IF s1.status = "running"
      THEN IF s1.disconnecting THEN Conn(s1, c.fn)
           ELSE LET c1 == closeSockets(Conn([s1 EXCEPT !.disconnecting = TRUE], c.fn))
                IN  Conn(scheduleReconnect(c1.bot), c1.fn)
      ELSE Conn(s1, c.fn)

\* connectSockets up to its first wait
connectSockets(c) ==
  LET c1 == closeSockets(Conn([c.bot EXCEPT !.disconnecting = TRUE], c.fn))
      name == SockName(Len(c1.fn.socks) + 1)
  IN  Conn([resetConnectionState(c1.bot) EXCEPT !.tradeSocket = name],
           [c1.fn EXCEPT !.socks = Append(@, NewSock("trade")),
                         !.calls = @ \cup {[pc |-> "waitTrade", sock |-> name]}])

\* waitForSocketOpen resolves: connectSockets goes on to the stream socket,
\* or to its end
waitResolved(c, call) ==
  IF call.pc = "waitTrade"
  THEN LET name == SockName(Len(c.fn.socks) + 1)
       IN  Conn([c.bot EXCEPT !.streamSocket = name],
                [c.fn EXCEPT !.socks = Append(@, NewSock("stream")),
                             !.calls = (@ \ {call})
                                       \cup {[pc |-> "waitStream", sock |-> name]}])
  ELSE Conn([c.bot EXCEPT !.disconnecting = FALSE],
            [c.fn EXCEPT !.calls = @ \ {call}])

\* waitForSocketOpen rejects: the catch of the reconnect timer's callback
waitRejected(c, call) ==
  Conn(scheduleReconnect(c.bot), [c.fn EXCEPT !.calls = @ \ {call}])

\* the calls whose waitForSocketOpen has its handlers on the socket
Waiting(f, name) == {call \in f.calls : call.sock = name}

\* the engine after a start that went through, on the sockets s1 and s2,
\* with one create sent and not answered
InitConn ==
  /\ bot = [LadderStart(DedupeConfig, NoStore, FALSE) EXCEPT
              !.tradeSocket = SockName(1), !.streamSocket = SockName(2)]
  /\ eng = Idle
  /\ fn = [op |-> "conn",
           socks |-> <<[ch |-> "trade", st |-> "open", up |-> TRUE, unacked |-> 0],
                       [ch |-> "stream", st |-> "open", up |-> TRUE, unacked |-> 1]>>,
           calls |-> {}, attempts |-> 0]

\* nativeModule.connect resolves: the socket has its socketId
ConnConnected ==
  /\ \E i \in 1..Len(fn.socks) :
       /\ fn.socks[i].st = "new"
       /\ fn' = [fn EXCEPT !.socks[i].st = "connecting"]
  /\ bot' = Was(bot)
  /\ UNCHANGED eng

\* the open event: onOpen(this.tradeSocket) or onOpen(this.streamSocket),
\* which throws at socket.url when the field is null, before a waiting
\* connectSockets is resolved
ConnOpen ==
  /\ \E i \in 1..Len(fn.socks) :
       LET x == fn.socks[i]
           ref == IF x.ch = "trade" THEN bot.tradeSocket ELSE bot.streamSocket
           f1 == [fn EXCEPT !.socks[i].st = IF @ = "connecting" THEN "open" ELSE @,
                            !.socks[i].up = TRUE]
           s1 == AddTask([Was(bot) EXCEPT
                            !.tradeReady = IF x.ch = "trade" THEN FALSE ELSE @,
                            !.streamReady = IF x.ch = "stream" THEN FALSE ELSE @],
                         Task("join", ref))
           waiting == Waiting(fn, SockName(i))
           c1 == IF ref = "null" THEN Conn(resetConnectionState(Was(bot)), f1)
                 ELSE IF waiting = {} THEN Conn(s1, f1)
                 ELSE waitResolved(Conn(s1, f1), CHOOSE call \in waiting : TRUE)
       IN  /\ x.st = "connecting" \/ (x.st = "closing" /\ ~x.up)
           /\ bot' = c1.bot
           /\ fn' = c1.fn
  /\ UNCHANGED eng

\* the error event (onFailure): the handlers of connectSockets log it, the
\* handler of waitForSocketOpen rejects; no close event follows
ConnError ==
  /\ \E i \in 1..Len(fn.socks) :
       LET f1 == [fn EXCEPT !.socks[i].st = "failed"]
           waiting == Waiting(fn, SockName(i))
           c1 == IF waiting = {} THEN Conn(Was(bot), f1)
                 ELSE waitRejected(Conn(Was(bot), f1), CHOOSE call \in waiting : TRUE)
       IN  /\ fn.socks[i].st \in {"connecting", "open", "closing"}
           /\ bot' = c1.bot
           /\ fn' = c1.fn
  /\ UNCHANGED eng

\* the close event (onClosed), after close() or when the peer closes
ConnClose ==
  /\ \E i \in 1..Len(fn.socks) :
       LET f1 == [fn EXCEPT !.socks[i].st = "closed"]
           waiting == Waiting(fn, SockName(i))
           c1 == handleSocketClose(Conn(Was(bot), f1))
           c2 == IF waiting = {} THEN c1
                 ELSE waitRejected(c1, CHOOSE call \in waiting : TRUE)
       IN  /\ fn.socks[i].st \in {"open", "closing"}
           /\ bot' = c2.bot
           /\ fn' = c2.fn
  /\ UNCHANGED eng

\* the 15 s of waitForSocketOpen are over
ConnTimeout ==
  /\ \E call \in fn.calls :
       LET c1 == waitRejected(Conn(Was(bot), fn), call)
       IN  /\ fn.socks[SockIndex(fn, call.sock)].st # "new"
           /\ bot' = c1.bot
           /\ fn' = c1.fn
  /\ UNCHANGED eng

\* the timer of scheduleReconnect fires
ConnReconnect ==
  /\ bot.reconnectTimer
  /\ fn.attempts < MaxAttempts
  /\ LET c1 == connectSockets(Conn([Was(bot) EXCEPT !.reconnectTimer = FALSE],
                                   [fn EXCEPT !.attempts = @ + 1]))
     IN  bot' = c1.bot /\ fn' = c1.fn
  /\ UNCHANGED eng

\* the end of joinTopics for the socket named t.x, the one the field held
\* at the open event: socket === streamSocket sets streamReady, every other
\* socket sets tradeReady
joinTopics(s, t) ==
  LET s1 == IF t.x = s.streamSocket THEN [s EXCEPT !.streamReady = TRUE]
            ELSE [s EXCEPT !.tradeReady = TRUE]
  IN  maybeStartFlashInitialBid(maybeStartFastInitialBid(s1))

ConnJoinFinishes ==
  /\ \E t \in BagToSet(bot.tasks) :
       /\ t.k = "join"
       /\ bot' = joinTopics(DelTask(Was(bot), t), t)
  /\ UNCHANGED <<eng, fn>>

ConnStop ==
  /\ bot.status = "running"
  /\ bot' = stop(Was(bot))
  /\ fn' = closeSockets(Conn(bot, fn)).fn
  /\ UNCHANGED eng

ConnPhxReply ==
  /\ \E i \in 1..Len(fn.socks), uuid \in Uuids \cup {""} :
       /\ Live(fn.socks[i])
       /\ fn.socks[i].unacked > 0
       /\ ~SeqHas(bot.pendingUUIDs, uuid)
       /\ bot' = OnPhxReply(Was(bot), uuid)
       /\ fn' = [fn EXCEPT !.socks[i].unacked = @ - 1]
  /\ UNCHANGED eng

ConnOpened ==
  /\ \E i \in 1..Len(fn.socks) : Live(fn.socks[i])
  /\ Len(bot.openedBids) < MaxOpen
  /\ \E uuid \in Uuids, closeAt \in 0..MaxKey :
       bot' = OnOpened(Was(bot), uuid, closeAt, OpenRate, "call")
  /\ UNCHANGED <<eng, fn>>

ConnCloseDealBatch ==
  /\ \E i \in 1..Len(fn.socks) : Live(fn.socks[i])
  /\ \E key \in 0..MaxKey, endRate \in EndRates :
       bot' = handleCloseDealBatch(Was(bot), key, endRate)
  /\ UNCHANGED <<eng, fn>>

ConnRisk ==
  /\ \E t \in BagToSet(bot.tasks) :
       /\ t.k = "risk"
       /\ bot' = applyRiskRules(refreshProfitFromApi(DelTask(Was(bot), t), 0, 0))
  /\ UNCHANGED <<eng, fn>>

NextConn ==
  \/ ConnConnected \/ ConnOpen \/ ConnError \/ ConnClose \/ ConnTimeout
  \/ ConnReconnect \/ ConnJoinFinishes \/ ConnStop

SpecConn == InitConn /\ [][NextConn]_vars

\* the frames of the sockets of the start, up to their close or error
\* events, before and after stop(); no reconnect timer fires meanwhile
NextFrames ==
  \/ ConnStop \/ ConnClose \/ ConnError
  \/ ConnPhxReply \/ ConnOpened \/ ConnCloseDealBatch \/ ConnRisk

SpecFrames == InitConn /\ [][NextFrames]_vars

\* the sockets the engine's fields refer to
Held(s) == {s.tradeSocket, s.streamSocket} \ {"null"}

\* C12: after stop() no reconnect timer is pending, connectSockets is not
\* invoked again and no socket is open, also when stop() is called while a
\* reconnect attempt waits for a socket to open.
C12_StoppedLeavesNothingOpen ==
  /\ [](bot.status = "stopped" =>
          (~bot.reconnectTimer
             /\ \A i \in 1..Len(fn.socks) : fn.socks[i].st # "open"))
  /\ [][bot.status = "stopped" => fn'.attempts = fn.attempts]_vars

\* C13: after stop() a phx_reply, opened or close_deal_batch frame still
\* delivered from a closing channel is ignored: pendingUUIDs, openedBids and
\* processedBatches stay empty and the ladder counters stay as they were.
C13_FramesAfterStopIgnored ==
  /\ [](bot.status = "stopped" =>
          (bot.pendingUUIDs = <<>> /\ bot.openedBids = <<>>
             /\ bot.processedBatches = <<>>))
  /\ [][(bot.status = "stopped" /\ bot'.status = "stopped") =>
          Ladder(bot') = Ladder(bot)]_vars

\* C14: while the engine is running, a socket it holds that has had an error
\* event or an unexpected close event has a reconnect attempt coming: the
\* reconnect timer is armed or connectSockets is executing.
C14_LostSocketHasReconnectComing ==
  (bot.status = "running"
     /\ \E i \in 1..Len(fn.socks) :
          SockName(i) \in Held(bot) /\ fn.socks[i].st \in {"failed", "closed"}) =>
    (bot.reconnectTimer \/ fn.calls # {})

\* C15: at most one reconnect is pending or in progress: while the timer is
\* armed or connectSockets is executing, close events of either channel
\* start no second timer and no second connectSockets call.
C15_OneReconnectAtATime ==
  Cardinality(fn.calls) + (IF bot.reconnectTimer THEN 1 ELSE 0) <= 1

\* both sockets of the start have had their close event and the
\* connectSockets call the first of them led to is executing
C15_CloseDuringReconnect ==
  /\ bot.status = "running"
  /\ fn.calls # {}
  /\ fn.socks[1].st = "closed" /\ fn.socks[2].st = "closed"

\* ------------------------------------------------------------------------
\* Bid cycles: a started engine that bids, has its bids acknowledged, opened
\* and settled, and evaluates the risk rules, over several batches.  The
\* broker answers a create with the uuid u1, opens the deal for the next
\* batch (the keys are 1, 2, ... in order) and closes the batch at any of
\* EndRates.
\* ------------------------------------------------------------------------
MaxCycles == 4

\* the balance of both wallets, enough for every bid of the ladder
RiskBalance == 100000

RiskConfigs ==
  {[DefaultConfig EXCEPT !.strategy = st, !.autoSwitchDemo = a, !.stopProfitAfter = 0,
                         !.resetMartingale = 3,
                         !.signals = <<"call", "call", "call", "call">>] :
     st \in {"Fast", "Signal"}, a \in BOOLEAN}

InitRisk ==
  /\ bot \in {[LadderStart(c, NoStore, FALSE) EXCEPT
                  !.brokerBalance = W(RiskBalance), !.balanceReal = W(RiskBalance),
                  !.balanceDemo = W(RiskBalance)] : c \in RiskConfigs}
  /\ eng = Idle
  /\ fn = Idle

CyclePhxReply ==
  /\ bot.unacked > 0
  /\ bot' = OnPhxReply([Was(bot) EXCEPT !.unacked = @ - 1], "u1")
  /\ UNCHANGED <<eng, fn>>

CycleOpened ==
  /\ SeqHas(bot.pendingUUIDs, "u1")
  /\ NextKey(bot) <= MaxCycles
  /\ bot' = OnOpened(Was(bot), "u1", NextKey(bot), OpenRate, bot.lastSignalTrend)
  /\ UNCHANGED <<eng, fn>>

NextRisk ==
  \/ SignalTimer \/ AlignedTimer \/ FastInitialBid \/ FastReentry
  \/ TimePasses \/ CyclePhxReply \/ CycleOpened \/ LadderClose \/ LadderRisk

SpecRisk == InitRisk /\ [][NextRisk]_vars

\* the continuations of handleCloseDealBatch that wait for the profit refresh
RiskCount(s) ==
  BagCardinality([t \in {u \in BagToSet(s.tasks) : u.k = "risk"} |-> s.tasks[t]])

\* the case of the stop-loss rule that switches to the demo wallet
SwitchCase(s) ==
  /\ s.status = "running"
  /\ s.config.stopLoss > 0 /\ s.martingaleStep > s.config.stopLoss
  /\ s.config.autoSwitchDemo /\ s.currentWalletType = "real"
  /\ ~s.switchDemoActive /\ s.allowAutoSwitch

\* the engine s1 has entered switch-demo from s and goes on running
EnteredSwitchDemo(s, s1) ==
  /\ s1.status = "running"
  /\ s1.switchDemoActive /\ s1.switchDemoStep = s.martingaleStep
  /\ s1.currentWalletType = "demo" /\ s1.forceDemo /\ ~s1.allowAutoSwitch

\* every bid transmitted while switch-demo is active is a demo deal of the
\* base (step 0) amount
SwitchDemoBidsAreBaseDemo ==
  (bot.sent.creates > 0 /\ bot.switchDemoActive) =>
    /\ bot.sent.dealType = "demo"
    /\ bot.sent.amounts =
         CalcAmounts(bot.config.bidAmount, bot.config.martingale, 0,
                     bot.userCurrency, bot.balanceDemo, MaxSplitIter).amounts

\* C18, as stated: a risk-rule evaluation with stopLoss > 0, martingaleStep >
\* stopLoss, autoSwitchDemo, the real wallet, not in switch-demo and
\* allowAutoSwitch true keeps the engine running and enters switch-demo, and
\* every bid transmitted while switchDemoActive is a demo deal of the base
\* amount.
C18_StopLossEntersSwitchDemo ==
  /\ [][(RiskCount(bot') < RiskCount(bot) /\ SwitchCase(bot)) =>
          EnteredSwitchDemo(bot, bot')]_vars
  /\ []SwitchDemoBidsAreBaseDemo

\* C18, amended: the same for every risk-rule evaluation that does not find
\* skipStopLossOnce set (the evaluation that follows the exit from
\* switch-demo skips the stop-loss rule).
C18_StopLossEntersSwitchDemoUnlessSkipped ==
  /\ [][(RiskCount(bot') < RiskCount(bot) /\ SwitchCase(bot)
          /\ ~bot.skipStopLossOnce) =>
          EnteredSwitchDemo(bot, bot')]_vars
  /\ []SwitchDemoBidsAreBaseDemo

\* a bid transmitted in switch-demo entered above the stop-loss step
C18_BidInSwitchDemo ==
  /\ bot.sent.creates > 0
  /\ bot.switchDemoActive
  /\ bot.switchDemoStep > bot.config.stopLoss
  /\ bot.status = "running"

\* C19: with autoSwitchDemo disabled and stopLoss > 0, once a settlement has
\* left martingaleStep > stopLoss the engine stops and no bid is transmitted
\* before the stop: while the engine is still running above the stop-loss
\* step, the risk rules are about to be evaluated and no step has
\* transmitted a create.
C19_NoBidBeforeStopLossStop ==
  (~bot.config.autoSwitchDemo /\ bot.config.stopLoss > 0
     /\ bot.status = "running" /\ bot.martingaleStep > bot.config.stopLoss) =>
    (RiskPending(bot) /\ bot.sent.creates = 0)

\* the cases of the stop-loss rule that switch to the demo wallet or stop
StopLossCase(s) ==
  /\ s.status = "running"
  /\ s.config.stopLoss > 0 /\ s.martingaleStep > s.config.stopLoss
  /\ ~s.switchDemoActive
  /\ ~s.config.autoSwitchDemo \/ (s.currentWalletType = "real" /\ s.allowAutoSwitch)

\* C20: skipStopLossOnce is set by the win that exits switch-demo; the one
\* risk-rule evaluation that finds it set skips the stop-loss check and
\* clears it; an evaluation that finds it clear applies the stop-loss rule,
\* so a loss on the real wallet with martingaleStep > stopLoss re-enters
\* switch-demo (or stops the engine).
C20_StopLossSkippedOnce ==
  /\ [][(~bot.skipStopLossOnce /\ bot'.skipStopLossOnce) =>
          (bot.switchDemoActive /\ ~bot'.switchDemoActive
             /\ bot'.settled.result = "win")]_vars
  /\ [][(RiskCount(bot') < RiskCount(bot) /\ bot.skipStopLossOnce) =>
          (~bot'.skipStopLossOnce /\ bot'.status = bot.status
             /\ bot'.switchDemoActive = bot.switchDemoActive)]_vars
  /\ [][(RiskCount(bot') < RiskCount(bot) /\ ~bot.skipStopLossOnce
          /\ StopLossCase(bot)) =>
          (bot'.switchDemoActive \/ bot'.status = "stopped")]_vars

\* switch-demo entered again, at the step a loss on the real wallet reached
\* after the exit from switch-demo
C20_ReenteredAfterExit ==
  /\ bot.switchDemoActive
  /\ bot.disableRepeatAfterDemo
  /\ bot.switchDemoStep = 3
  /\ bot.status = "running"

\* ------------------------------------------------------------------------
\* The native engine's ladder (object BotEngine, src/unnamed/part_006).  The
\* object lives as long as the process, so a start() acts on the fields the
\* run before left.  status is the status last emitted, risk the number of
\* scheduled risk evaluations (refreshProfitFromApi, applyRiskRules) that
\* have not run yet, reentries the scheduled fast re-entries, settled what
\* the last pass of the loop over the matching bids did.  switchDemoStep -1
\* and switchDemoReturnWallet "null" stand for null.
\* ------------------------------------------------------------------------
NativeEngine ==
  [op |-> "engine", running |-> FALSE, status |-> "idle",
   config |-> DefaultConfig, resumeState |-> NoResume,
   pendingUUIDs |-> {}, openedBids |-> <<>>, processedBatches |-> {},
   martingaleStep |-> 0, lossStreak |-> 0, repeatStep |-> 0,
   fastRepeatTrend |-> NoTrend,
   forceDemo |-> FALSE, currentWalletType |-> "demo", allowAutoSwitch |-> TRUE,
   cooldownActive |-> FALSE, cooldownCount |-> 0, bidInFlightUntil |-> "null",
   flashInitialSent |-> FALSE, fastInitialSent |-> FALSE,
   switchDemoActive |-> FALSE, switchDemoStep |-> -1,
   switchDemoReturnWallet |-> "null",
   disableRepeatAfterDemo |-> FALSE, skipStopLossOnce |-> FALSE,
   profitReal |-> 0, profitDemo |-> 0, lastBidAt |-> "long",
   risk |-> 0, reentries |-> 0, run |-> 0, settled |-> NoSettle]

\* BotEngine.applyResumeState
nativeApplyResumeState(e) ==
  IF ~e.resumeState.shouldResume THEN e
  ELSE IF e.resumeState.resumeStep <= 0 THEN e
  ELSE [e EXCEPT !.martingaleStep = Min(e.resumeState.resumeStep, MAX_K_STEP),
                 !.repeatStep = 0]

\* BotEngine.start with the payload's config and resumeState; connectSockets
\* emits the status running before start returns
nativeStart(e, config, resumeState) ==
  IF e.running THEN e
  ELSE LET e1 == [e EXCEPT !.running = TRUE, !.config = config,
                           !.resumeState = resumeState,
                           !.flashInitialSent = FALSE, !.fastInitialSent = FALSE,
                           !.fastRepeatTrend = NoTrend,
                           !.switchDemoActive = FALSE, !.switchDemoStep = -1,
                           !.disableRepeatAfterDemo = FALSE,
                           !.profitReal = 0, !.profitDemo = 0,
                           !.allowAutoSwitch = TRUE, !.lastBidAt = "long",
                           !.run = @ + 1, !.settled = NoSettle]
           e2 == nativeApplyResumeState(e1)
       IN  [e2 EXCEPT !.currentWalletType = config.walletType, !.status = "running"]

\* BotEngine.stop
nativeStop(e) == [e EXCEPT !.running = FALSE, !.status = "stopped"]

\* handleSocketEvent, phx_reply on topic bo
nativeOnPhxReply(e, uuid) ==
  [e EXCEPT !.pendingUUIDs = IF uuid # "" THEN @ \cup {uuid} ELSE @,
            !.bidInFlightUntil = "null"]

\* handleSocketEvent, opened
nativeOnOpened(e, uuid, closeAt, openRate, trend) ==
  IF uuid # "" /\ uuid \notin e.pendingUUIDs THEN e
  ELSE [e EXCEPT !.pendingUUIDs = @ \ {uuid},
                 !.bidInFlightUntil = "null",
                 !.openedBids =
                    IF closeAt = 0 THEN @
                    ELSE Append(@, [closeAt |-> closeAt, openRate |-> openRate,
                                    trend |-> IF trend = "put" THEN "put" ELSE "call",
                                    uuid |-> uuid])]

\* nativeOnWin whose exit from switch-demo leaves forceDemo set
nativeOnWinKeepsForceDemo(e) ==
  IF e.switchDemoActive
  THEN [e EXCEPT !.switchDemoActive = FALSE,
                 !.martingaleStep = IF e.switchDemoStep >= 0 THEN e.switchDemoStep ELSE @,
                 !.switchDemoStep = -1,
                 !.currentWalletType =
                    IF e.switchDemoReturnWallet # "null" THEN e.switchDemoReturnWallet
                    ELSE "real",
                 !.switchDemoReturnWallet = "null",
                 !.allowAutoSwitch = TRUE,
                 !.repeatStep = 0,
                 !.disableRepeatAfterDemo = TRUE,
                 !.skipStopLossOnce = TRUE,
                 !.cooldownActive = TRUE, !.cooldownCount = 1]
  ELSE [e EXCEPT !.lossStreak = 0, !.martingaleStep = 0, !.repeatStep = 0,
                 !.allowAutoSwitch = TRUE, !.disableRepeatAfterDemo = FALSE,
                 !.cooldownActive = TRUE, !.cooldownCount = 1]

nativeOnWin(e) ==
  IF e.switchDemoActive
  THEN [e EXCEPT !.switchDemoActive = FALSE,
                 !.martingaleStep = IF e.switchDemoStep >= 0 THEN e.switchDemoStep ELSE @,
                 !.switchDemoStep = -1,
                 !.forceDemo = FALSE,
                 !.currentWalletType =
                    IF e.switchDemoReturnWallet # "null" THEN e.switchDemoReturnWallet
                    ELSE "real",
                 !.switchDemoReturnWallet = "null",
                 !.allowAutoSwitch = TRUE,
                 !.repeatStep = 0,
                 !.disableRepeatAfterDemo = TRUE,
                 !.skipStopLossOnce = TRUE,
                 !.cooldownActive = TRUE, !.cooldownCount = 1]
  ELSE [e EXCEPT !.lossStreak = 0, !.martingaleStep = 0, !.repeatStep = 0,
                 !.allowAutoSwitch = TRUE, !.disableRepeatAfterDemo = FALSE,
                 !.cooldownActive = TRUE, !.cooldownCount = 1]

\* a lost bid outside switch-demo
nativeOnLoss(e) ==
  LET resetMartingale == e.config.resetMartingale
      maxStep == e.config.maxMartingale
      e1 == [e EXCEPT !.lossStreak = @ + 1]
      e2 == IF resetMartingale = 0 THEN [e1 EXCEPT !.martingaleStep = 0]
            ELSE IF resetMartingale > 0 /\ e1.martingaleStep >= resetMartingale
            THEN [e1 EXCEPT !.martingaleStep = 0, !.lossStreak = 0, !.repeatStep = 0]
            ELSE [e1 EXCEPT !.martingaleStep = @ + 1]
      e3 == [e2 EXCEPT !.martingaleStep = Min(@, MAX_K_STEP)]
      r == IF maxStep > 0 /\ e3.repeatStep < maxStep THEN e3.repeatStep + 1 ELSE 0
  IN  [e3 EXCEPT !.repeatStep = IF e3.disableRepeatAfterDemo THEN 0 ELSE r]

\* one pass of matching.forEach
nativeSettleBid(e, bid, endRate) ==
  LET result == nativeResolveOutcome(bid.trend, bid.openRate, endRate)
      isDemoMode == e.forceDemo \/ e.currentWalletType = "demo"
                      \/ e.switchDemoActive \/ e.disableRepeatAfterDemo
      e1 == IF e.config.strategy = "Fast"
            THEN [e EXCEPT !.fastRepeatTrend =
                    IF ~isDemoMode /\ result = "win" THEN bid.trend ELSE NoTrend]
            ELSE e
      e2 == IF result = "win" THEN nativeOnWin(e1)
            ELSE IF result = "loss" /\ ~e1.switchDemoActive THEN nativeOnLoss(e1)
            ELSE e1
      e3 == [e2 EXCEPT !.settled = [called |-> TRUE, result |-> result,
                                    trend |-> bid.trend,
                                    below |-> endRate < bid.openRate,
                                    switchDemo |-> e.switchDemoActive]]
  IN  IF e3.running /\ e3.config.strategy = "Fast"
      THEN [e3 EXCEPT !.reentries = @ + 1]
      ELSE e3

RECURSIVE nativeSettleAll(_, _, _)
nativeSettleAll(e, bids, endRate) ==
  IF bids = <<>> THEN e
  ELSE nativeSettleAll(nativeSettleBid(e, Head(bids), endRate), Tail(bids), endRate)

\* BotEngine.handleCloseDealBatch run by one thread alone; key 0 stands for
\* a payload without ric or finished_at
nativeHandleCloseDealBatch(e, key, endRate) ==
  IF key = 0 \/ key \in e.processedBatches THEN e
  ELSE LET e1 == [e EXCEPT !.processedBatches = @ \cup {key}]
           matching == SelectSeq(e1.openedBids, LAMBDA b : b.closeAt = key)
           e2 == [e1 EXCEPT !.openedBids = SelectSeq(@, LAMBDA b : b.closeAt # key)]
       IN  IF matching = <<>> THEN e1
           ELSE [nativeSettleAll(e2, matching, endRate) EXCEPT !.risk = @ + 1]

nativeGetCurrentProfit(e) ==
  LET wallet == IF e.forceDemo THEN "demo" ELSE e.currentWalletType
  IN  IF wallet = "demo" THEN e.profitDemo ELSE e.profitReal

nativeStopProfitRule(e) ==
  IF e.config.stopProfitAfter > 0
       /\ nativeGetCurrentProfit(e) >= e.config.stopProfitAfter * 100
  THEN nativeStop(e) ELSE e

\* BotEngine.applyRiskRules
nativeApplyRiskRules(e) ==
  IF e.skipStopLossOnce THEN nativeStopProfitRule([e EXCEPT !.skipStopLossOnce = FALSE])
  ELSE IF ~e.switchDemoActive /\ e.config.stopLoss > 0
          /\ e.martingaleStep > e.config.stopLoss
  THEN IF e.config.autoSwitchDemo /\ e.currentWalletType = "real"
          /\ ~e.switchDemoActive /\ e.allowAutoSwitch
       THEN [e EXCEPT !.switchDemoReturnWallet = "real",
                      !.currentWalletType = "demo",
                      !.forceDemo = TRUE,
                      !.switchDemoActive = TRUE,
                      !.switchDemoStep = e.martingaleStep,
                      !.allowAutoSwitch = FALSE]
       ELSE IF ~e.config.autoSwitchDemo THEN nativeStop(e)
       ELSE nativeStopProfitRule(e)
  ELSE nativeStopProfitRule(e)

\* ------------------------------------------------------------------------
\* The controller and the native engine side by side: both are started with
\* the same configuration and resume state and are handed the same events.
\* fn.key is the close time of the latest opened bid, fn.fresh whether the
\* last step was a start() without resume state.
\* ------------------------------------------------------------------------
MaxPairKeys == 4

MaxPairRuns == 2

PairConfigs ==
  {[DefaultConfig EXCEPT !.strategy = "Signal", !.autoSwitchDemo = a,
                         !.stopProfitAfter = p, !.resetMartingale = n] :
     a \in BOOLEAN, p \in {0, 1}, n \in {2, 3}}

\* resume states computeResumeState returns after a bid at step 2
PairResumes ==
  {NoResume,
   [shouldResume |-> TRUE, resumeStep |-> 3, reason |-> "UNCLOSED_BID"],
   [shouldResume |-> TRUE, resumeStep |-> 3, reason |-> "LAST_BID_WON_IN_SWITCH_DEMO"]}

\* a start() of the controller that goes through: both sockets open, both
\* joins, the end of start()
StartThrough(s, resumeState) ==
  LET s2 == startBegin(s, resumeState, TRUE)
      s3 == onOpen(onOpen(s2, "trade"), "stream")
      tj == [k |-> "join", x |-> "trade", run |-> s3.run]
      sj == [k |-> "join", x |-> "stream", run |-> s3.run]
      s4 == joinFinished(DelTask(s3, tj), tj)
      s5 == joinFinished(DelTask(s4, sj), sj)
  IN  Was(startFinish(s5, 0, 0))

InitPair ==
  \E c \in PairConfigs, r \in PairResumes :
    /\ bot = StartThrough([BotFields(c) EXCEPT !.brokerBalance = W(RiskBalance)], r)
    /\ eng = nativeStart(NativeEngine, c, r)
    /\ fn = [op |-> "pair", key |-> 0, fresh |-> ~r.shouldResume]

PairRunning == bot.status = "running" /\ eng.running

\* settled describes the step that led to a state
NativeWas(e) == [e EXCEPT !.settled = NoSettle]

PairPhxReply ==
  /\ PairRunning
  /\ bot.pendingUUIDs = <<>> /\ bot.openedBids = <<>>
  /\ fn.key < MaxPairKeys
  /\ bot' = OnPhxReply(Was(bot), "u1")
  /\ eng' = nativeOnPhxReply(NativeWas(eng), "u1")
  /\ fn' = [fn EXCEPT !.fresh = FALSE]

PairOpened ==
  /\ PairRunning
  /\ SeqHas(bot.pendingUUIDs, "u1")
  /\ fn.key < MaxPairKeys
  /\ bot' = OnOpened(Was(bot), "u1", fn.key + 1, OpenRate, "call")
  /\ eng' = nativeOnOpened(NativeWas(eng), "u1", fn.key + 1, OpenRate, "call")
  /\ fn' = [fn EXCEPT !.key = @ + 1, !.fresh = FALSE]

PairCloseDealBatch ==
  /\ PairRunning
  /\ bot.openedBids # <<>>
  /\ \E endRate \in EndRates :
       /\ bot' = handleCloseDealBatch(Was(bot), fn.key, endRate)
       /\ eng' = nativeHandleCloseDealBatch(NativeWas(eng), fn.key, endRate)
  /\ fn' = [fn EXCEPT !.fresh = FALSE]

\* the profit refresh and the risk rules that follow a settlement
PairRisk ==
  /\ eng.risk > 0
  /\ \E t \in BagToSet(bot.tasks), demoTotal \in ProfitChoices, realTotal \in ProfitChoices :
       /\ t.k = "risk"
       /\ bot' = applyRiskRules(
                   refreshProfitFromApi(DelTask(Was(bot), t), demoTotal, realTotal))
       /\ eng' = nativeApplyRiskRules(
                   [NativeWas(eng) EXCEPT !.risk = @ - 1, !.profitDemo = demoTotal,
                               !.profitReal = realTotal])
  /\ fn' = [fn EXCEPT !.fresh = FALSE]

PairStop ==
  /\ bot.status = "running" \/ eng.running
  /\ bot' = stop(Was(bot))
  /\ eng' = nativeStop(NativeWas(eng))
  /\ fn' = [fn EXCEPT !.fresh = FALSE]

PairStart ==
  /\ bot.status = "stopped" /\ ~eng.running
  /\ bot.run < MaxPairRuns
  /\ bot' = StartThrough(bot, NoResume)
  /\ eng' = nativeStart(eng, bot.config, NoResume)
  /\ fn' = [fn EXCEPT !.fresh = TRUE]

NextPair ==
  \/ PairPhxReply \/ PairOpened \/ PairCloseDealBatch \/ PairRisk
  \/ PairStop \/ PairStart

SpecPair == InitPair /\ [][NextPair]_vars

\* the state a win settled in switch-demo (state s) leaves
ExitedSwitchDemo(s, s1) ==
  /\ ~s1.switchDemoActive /\ ~s1.forceDemo
  /\ s1.currentWalletType = s.switchDemoReturnWallet
  /\ s1.martingaleStep = s.switchDemoStep
  /\ s1.repeatStep = 0
  /\ s1.disableRepeatAfterDemo /\ s1.skipStopLossOnce
  /\ s1.allowAutoSwitch

\* C21: a win settled while switchDemoActive exits switch-demo, in the
\* controller and in the native engine: switchDemoActive and forceDemo are
\* false, the wallet is the wallet recorded at entry, martingaleStep the step
\* recorded at entry, repeatStep 0, disableRepeatAfterDemo, skipStopLossOnce
\* and allowAutoSwitch true.
C21_WinExitsSwitchDemo ==
  [][/\ (bot'.settled.result = "win" /\ bot.switchDemoActive) =>
          ExitedSwitchDemo(bot, bot')
     /\ (eng'.settled.result = "win" /\ eng.switchDemoActive) =>
          ExitedSwitchDemo(eng, eng')]_vars

\* both engines have settled a win in a switch-demo entered at step 2
C21_WonInSwitchDemo ==
  /\ bot.settled.result = "win" /\ bot.settled.switchDemo
  /\ eng.settled.result = "win" /\ eng.settled.switchDemo
  /\ bot.martingaleStep = 2 /\ eng.martingaleStep = 2
  /\ bot.currentWalletType = "real" /\ eng.currentWalletType = "real"

\* C22: a win settled outside switch-demo sets martingaleStep, lossStreak
\* and repeatStep to 0, shouldUseSignal and allowAutoSwitch to true and
\* disableRepeatAfterDemo to false.
C22_WinResetsLadder ==
  [][(bot'.settled.result = "win" /\ ~bot.switchDemoActive) =>
       /\ bot'.martingaleStep = 0 /\ bot'.lossStreak = 0 /\ bot'.repeatStep = 0
       /\ bot'.shouldUseSignal /\ bot'.allowAutoSwitch
       /\ ~bot'.disableRepeatAfterDemo]_vars

\* a win outside switch-demo of a bid placed at step 2 of the ladder
C22_WonAboveBase ==
  /\ bot.settled.result = "win" /\ ~bot.settled.switchDemo
  /\ bot.lastBidStep = 2
  /\ bot.martingaleStep = 0

\* the fields a tie, or a loss in switch-demo, leaves alone
LadderAndSwitchDemo(s) ==
  <<s.martingaleStep, s.lossStreak, s.repeatStep, s.shouldUseSignal,
    s.switchDemoActive, s.switchDemoStep, s.switchDemoReturnWallet,
    s.forceDemo, s.currentWalletType, s.allowAutoSwitch,
    s.disableRepeatAfterDemo, s.skipStopLossOnce>>

\* C23: a settlement that resolves to tie, or to loss while
\* switchDemoActive, leaves martingaleStep, lossStreak, repeatStep,
\* shouldUseSignal and the switch-demo sub-state unchanged.
C23_TieAndDemoLossChangeNothing ==
  [][(bot'.settled.result = "tie"
        \/ (bot'.settled.result = "loss" /\ bot.switchDemoActive)) =>
       LadderAndSwitchDemo(bot') = LadderAndSwitchDemo(bot)]_vars

\* a loss settled in a switch-demo entered at step 2
C23_LostInSwitchDemo ==
  /\ bot.settled.result = "loss" /\ bot.settled.switchDemo
  /\ bot.switchDemoActive /\ bot.switchDemoStep = 2
  /\ bot.martingaleStep = 2

\* today's profit of wallet w ("demo" or "real") in s
ProfitOf(s, w) == IF w = "demo" THEN s.profitDemo ELSE s.profitReal

ActiveWallet(s) == IF s.forceDemo THEN "demo" ELSE s.currentWalletType

\* the stop-loss rule stops the engine in s
StopLossStops(s) ==
  /\ ~s.skipStopLossOnce /\ ~s.switchDemoActive
  /\ s.config.stopLoss > 0 /\ s.martingaleStep > s.config.stopLoss
  /\ ~s.config.autoSwitchDemo

\* C24: the risk-rule evaluation after a settlement stops the running
\* engine when stopProfitAfter > 0 and the refreshed profit of the active
\* wallet (the wallet active before the evaluation and the wallet active
\* after it) is at least stopProfitAfter x 100; an evaluation stops the
\* engine for no other profit: not for the other wallet's, and not with
\* stopProfitAfter <= 0.
C24_StopProfitAfterEachSettlement ==
  [][(RiskCount(bot') < RiskCount(bot) /\ bot.status = "running") =>
       LET target == bot.config.stopProfitAfter * 100
       IN  /\ (bot.config.stopProfitAfter > 0
                 /\ ProfitOf(bot', ActiveWallet(bot)) >= target
                 /\ ProfitOf(bot', ActiveWallet(bot')) >= target) =>
                bot'.status = "stopped"
           /\ (bot'.status = "stopped" /\ ~StopLossStops(bot)) =>
                (bot.config.stopProfitAfter > 0
                   /\ ProfitOf(bot', ActiveWallet(bot)) >= target)]_vars

\* the ladder, the switch-demo sub-state and the tracking sets of the
\* controller as a start() without resume state is to leave them
ControllerClean(s) ==
  /\ s.martingaleStep = 0 /\ s.lossStreak = 0 /\ s.repeatStep = 0
  /\ ~s.switchDemoActive /\ s.switchDemoStep = -1
  /\ s.switchDemoReturnWallet = "null" /\ ~s.forceDemo
  /\ s.pendingUUIDs = <<>> /\ s.openedBids = <<>> /\ s.processedBatches = <<>>
  /\ s.store = NoStore

\* the same for the native engine, which keeps no persisted state
NativeClean(e) ==
  /\ e.martingaleStep = 0 /\ e.lossStreak = 0 /\ e.repeatStep = 0
  /\ ~e.switchDemoActive /\ e.switchDemoStep = -1
  /\ e.switchDemoReturnWallet = "null" /\ ~e.forceDemo
  /\ e.pendingUUIDs = {} /\ e.openedBids = <<>> /\ e.processedBatches = {}

\* C25: a start() without resume state begins with martingaleStep,
\* lossStreak and repeatStep 0, no switch-demo sub-state, empty
\* pendingUUIDs, openedBids and processedBatches and cleared persisted
\* state, whatever the run before left, in the controller and in the native
\* engine.
C25_StartWithoutResumeIsClean ==
  fn.fresh => (ControllerClean(bot) /\ NativeClean(eng))

\* the fields the two engines are to agree on
PairView(s) ==
  <<s.martingaleStep, s.lossStreak, s.repeatStep, s.switchDemoActive,
    s.allowAutoSwitch, s.currentWalletType>>

\* C26: started for the first time with the same configuration and the
\* same resume state and handed the same phx_reply, opened and
\* close_deal_batch events, the controller and the native engine have the
\* same martingaleStep, lossStreak, repeatStep, switchDemoActive,
\* allowAutoSwitch and wallet type after every event.
C26_EnginesAgree ==
  [][(bot.run = 1 /\ bot'.run = 1 /\ PairRunning) =>
       PairView(bot') = PairView(eng')]_vars

\* C27: a run ended by insufficient balance, or by the stop-loss rule with
\* auto-switch disabled, ends with the status "error"; a run ended by the
\* user's stop() ends with the status "stopped".
C27_TerminalStatus ==
  [][bot.status = "running" =>
       /\ bot'.sent.error = "balance" => bot'.status = "error"
       /\ (RiskCount(bot') < RiskCount(bot) /\ StopLossStops(bot)) =>
            bot'.status = "error"
       /\ (bot'.status # "running" /\ RiskCount(bot') = RiskCount(bot)
             /\ ~bot'.sent.called) => bot'.status = "stopped"]_vars

\* ------------------------------------------------------------------------
\* The native engine's settlement on two transport threads.  The trade and
\* the stream socket each deliver the close_deal_batch of the open bid on
\* their own thread, and handleCloseDealBatch takes no lock: a thread's
\* processedBatches.contains, its processedBatches.add with the filter of
\* openedBids, and its removeAll with the loop over the matching bids are
\* steps other threads come between.  fn.pc is each thread's position,
\* fn.matching the bids its filter returned, fn.endRate the rate of the
\* batch, fn.passes the number of times the batch was settled.
\* ------------------------------------------------------------------------
MaxSettleKeys == 2

SettleConfigs ==
  {[DefaultConfig EXCEPT !.strategy = "Signal", !.stopProfitAfter = 0,
                         !.resetMartingale = 3, !.autoSwitchDemo = a] :
     a \in BOOLEAN}

SettleIdle ==
  [op |-> "settle", key |-> 0, endRate |-> 0, passes |-> 0,
   pc |-> [ch \in NativeChannels |-> "done"],
   matching |-> [ch \in NativeChannels |-> <<>>]]

InitSettle ==
  /\ bot = Parked
  /\ eng \in {nativeStart(NativeEngine, c, NoResume) : c \in SettleConfigs}
  /\ fn = SettleIdle

\* a bid is acknowledged and opened, and the broker settles it at endRate:
\* the close_deal_batch frame is on its way on both sockets
SettleOpened ==
  /\ eng.running
  /\ eng.openedBids = <<>> /\ eng.risk = 0
  /\ \A ch \in NativeChannels : fn.pc[ch] = "done"
  /\ fn.key < MaxSettleKeys
  /\ \E endRate \in EndRates :
       fn' = [SettleIdle EXCEPT !.key = fn.key + 1, !.endRate = endRate,
                                !.pc = [ch \in NativeChannels |-> "frame"]]
  /\ eng' = nativeOnOpened(nativeOnPhxReply(NativeWas(eng), "u1"), "u1",
                           fn.key + 1, OpenRate, "call")
  /\ UNCHANGED bot

\* if (processedBatches.contains(batchKey)) return
SettleCheck ==
  /\ \E ch \in NativeChannels :
       /\ fn.pc[ch] = "frame"
       /\ fn' = [fn EXCEPT !.pc[ch] = IF fn.key \in eng.processedBatches
                                      THEN "done" ELSE "new"]
  /\ UNCHANGED <<bot, eng>>

\* processedBatches.add(batchKey); matching = openedBids.filter {...};
\* if (matching.isEmpty()) return
SettleMatch ==
  /\ \E ch \in NativeChannels :
       /\ fn.pc[ch] = "new"
       /\ LET matching == SelectSeq(eng.openedBids, LAMBDA b : b.closeAt = fn.key)
          IN  /\ fn' = [fn EXCEPT !.pc[ch] = IF matching = <<>> THEN "done" ELSE "matched",
                                  !.matching[ch] = matching]
              /\ eng' = [eng EXCEPT !.processedBatches = @ \cup {fn.key}]
  /\ UNCHANGED bot

\* openedBids.removeAll(matching); matching.forEach {...}; scheduler.execute
SettleApply ==
  /\ \E ch \in NativeChannels :
       /\ fn.pc[ch] = "matched"
       /\ eng' = [nativeSettleAll(
                    [NativeWas(eng) EXCEPT
                       !.openedBids = SelectSeq(@, LAMBDA b : b.closeAt # fn.key)],
                    fn.matching[ch], fn.endRate)
                  EXCEPT !.risk = @ + 1]
       /\ fn' = [fn EXCEPT !.pc[ch] = "done", !.passes = @ + 1]
  /\ UNCHANGED bot

\* the scheduled refreshProfitFromApi and applyRiskRules
SettleRisk ==
  /\ eng.risk > 0
  /\ eng' = nativeApplyRiskRules([NativeWas(eng) EXCEPT !.risk = @ - 1])
  /\ UNCHANGED <<bot, fn>>

NextSettle == SettleOpened \/ SettleCheck \/ SettleMatch \/ SettleApply \/ SettleRisk

SpecSettle == InitSettle /\ [][NextSettle]_vars

\* C28: inbound events of the native engine are applied one at a time: a
\* close_deal_batch delivered on the trade and on the stream socket at the
\* same moment changes the ladder once, so no batch is settled twice.
C28_BatchSettledOnce ==
  fn.op = "settle" => fn.passes <= 1

\* ------------------------------------------------------------------------
\* The native engine's connection (BotEngine.createSocket, reconnect).
\* fn.socks are the sockets created so far, each with its channel and its
\* state: "connecting", "open", "closing" (close() was called on it and the
\* close handshake is under way), "closed" or "failed".  eng.tradeSocket and
\* eng.streamSocket are indexes into fn.socks, 0 for null.  eng.timers is
\* the number of scheduled reconnect() calls, fn.reconnects the number of
\* reconnect() calls that went through, fn.outage whether the one outage
\* has not happened yet ("none"), is going on ("down") or is over ("up"),
\* fn.upReconnects the reconnect() calls that went through after its end.
\* ------------------------------------------------------------------------
MaxReconnects == 3

NativeLink ==
  [op |-> "link", running |-> TRUE, tradeSocket |-> 1, streamSocket |-> 2,
   tradeConnected |-> TRUE, streamConnected |-> TRUE,
   tradeReady |-> TRUE, streamReady |-> TRUE, timers |-> 0]

InitLink ==
  /\ bot = Parked
  /\ eng = NativeLink
  /\ fn = [op |-> "link", outage |-> "none", reconnects |-> 0, upReconnects |-> 0,
           socks |-> <<[ch |-> "trade", st |-> "open"], [ch |-> "stream", st |-> "open"]>>]

\* the flags onFailure and onClosed reset, and the reconnect they schedule
nativeSocketLost(e, ch) ==
  LET e1 == IF ch = "stream"
            THEN [e EXCEPT !.streamConnected = FALSE, !.streamReady = FALSE]
            ELSE [e EXCEPT !.tradeConnected = FALSE, !.tradeReady = FALSE]
  IN  IF e1.running THEN [e1 EXCEPT !.timers = @ + 1] ELSE e1

\* WebSocket.close on socket i: a socket that is connecting or open starts
\* the close handshake, any other is left as it is
nativeClose(socks, i) ==
  IF i = 0 THEN socks
  ELSE IF socks[i].st \in {"connecting", "open"}
  THEN [socks EXCEPT ![i].st = "closing"]
  ELSE socks

\* the gateway goes down
LinkOutage ==
  /\ fn.outage = "none"
  /\ fn' = [fn EXCEPT !.outage = "down"]
  /\ UNCHANGED <<bot, eng>>

\* the gateway is back and stays up
LinkRestored ==
  /\ fn.outage = "down"
  /\ fn' = [fn EXCEPT !.outage = "up"]
  /\ UNCHANGED <<bot, eng>>

\* onFailure: during the outage a socket that is not closed yet fails
LinkFailure ==
  /\ fn.outage = "down"
  /\ \E i \in 1..Len(fn.socks) :
       /\ fn.socks[i].st \in {"connecting", "open", "closing"}
       /\ fn' = [fn EXCEPT !.socks[i].st = "failed"]
       /\ eng' = nativeSocketLost(eng, fn.socks[i].ch)
  /\ UNCHANGED bot

\* onOpen
LinkOpen ==
  /\ fn.outage # "down"
  /\ \E i \in 1..Len(fn.socks) :
       /\ fn.socks[i].st = "connecting"
       /\ fn' = [fn EXCEPT !.socks[i].st = "open"]
       /\ eng' = IF fn.socks[i].ch = "stream"
                 THEN [eng EXCEPT !.streamConnected = TRUE]
                 ELSE [eng EXCEPT !.tradeConnected = TRUE]
  /\ UNCHANGED bot

\* onClosed: the close handshake of a socket close() was called on ends
LinkClosed ==
  /\ fn.outage # "down"
  /\ \E i \in 1..Len(fn.socks) :
       /\ fn.socks[i].st = "closing"
       /\ fn' = [fn EXCEPT !.socks[i].st = "closed"]
       /\ eng' = nativeSocketLost(eng, fn.socks[i].ch)
  /\ UNCHANGED bot

\* a scheduled reconnect() runs: it closes the sockets the engine holds and
\* connectSockets creates two new ones
LinkReconnect ==
  /\ eng.timers > 0
  /\ fn.reconnects < MaxReconnects
  /\ IF ~eng.running
     THEN /\ eng' = [eng EXCEPT !.timers = @ - 1]
          /\ fn' = fn
     ELSE LET closed == nativeClose(nativeClose(fn.socks, eng.tradeSocket),
                                    eng.streamSocket)
              n == Len(closed)
          IN  /\ fn' = [fn EXCEPT !.reconnects = @ + 1,
                                  !.upReconnects = IF fn.outage = "up" THEN @ + 1 ELSE @,
                                  !.socks = closed \o <<[ch |-> "trade", st |-> "connecting"],
                                                        [ch |-> "stream", st |-> "connecting"]>>]
              /\ eng' = [eng EXCEPT !.timers = @ - 1,
                                    !.tradeSocket = n + 1, !.streamSocket = n + 2,
                                    !.tradeReady = FALSE, !.streamReady = FALSE]
  /\ UNCHANGED bot

\* BotEngine.stop
LinkStop ==
  /\ eng.running
  /\ fn' = [fn EXCEPT !.socks = nativeClose(nativeClose(fn.socks, eng.tradeSocket),
                                            eng.streamSocket)]
  /\ eng' = [eng EXCEPT !.running = FALSE, !.tradeSocket = 0, !.streamSocket = 0,
                        !.tradeReady = FALSE, !.streamReady = FALSE,
                        !.tradeConnected = FALSE, !.streamConnected = FALSE]
  /\ UNCHANGED bot

NextLink ==
  \/ LinkOutage \/ LinkRestored \/ LinkFailure \/ LinkOpen \/ LinkClosed
  \/ LinkReconnect \/ LinkStop

SpecLink == InitLink /\ [][NextLink]_vars

\* C29: in the native engine one outage produces a single reconnect: the
\* closes reconnect() performs on the old sockets schedule no reconnect,
\* the callbacks of the two sockets do not each start one, and once the
\* new channels are open with the gateway up no further reconnect occurs.
\* So at most one reconnect() goes through once the gateway is back.
C29_OneReconnectPerOutage ==
  fn.op = "link" => fn.upReconnects <= 1

\* ------------------------------------------------------------------------
\* calculateBidAmounts (native engine): the amounts are Int
\* ------------------------------------------------------------------------
\* Double.roundToInt: a value above Int.MAX_VALUE becomes Int.MAX_VALUE
I32Sat(w) == IF WLe(TwoTo31, w) THEN WSub(TwoTo31, W(1)) ELSE w

\* for (i in 1..step) { amount = (total * rate).roundToInt(); total += amount }
RECURSIVE NativeCompoundLoop(_, _, _, _, _)
NativeCompoundLoop(i, step, total, amount, percent) ==
  IF i > step THEN amount
  ELSE LET a == I32Sat(RoundPercent(total, IF percent > 0 THEN percent ELSE 100))
       IN  NativeCompoundLoop(i + 1, step, WAdd(total, a), a, percent)

\* BotEngine.calculateBidAmounts from val rate on
nativeCalcAmounts(base, percent, step, currency, fuel) ==
  LET amount == NativeCompoundLoop(1, step, W(base), W(base), percent)
      rawAmount == I32Mul(amount, 100)
      minBid == nativeMinBidOf(currency)
      maxBid == nativeMaxBidOf(currency)
  IN  IF WLe(rawAmount, WZero) THEN [amounts |-> <<>>, error |-> "le0", stop |-> FALSE]
      ELSE IF WLt(rawAmount, minBid) THEN [amounts |-> <<>>, error |-> "min", stop |-> FALSE]
      ELSE IF WLt(maxBid, rawAmount)
        THEN [amounts |-> nativeSplitBidAmounts(rawAmount, minBid, maxBid, fuel).chunks,
              error |-> "none", stop |-> FALSE]
      ELSE [amounts |-> <<rawAmount>>, error |-> "none", stop |-> FALSE]

InitAmounts ==
  /\ bot = Parked
  /\ eng = Idle
  /\ fn \in {[op |-> "calculateBidAmounts", currency |-> c, base |-> b, percent |-> p,
              step |-> st, done |-> FALSE, controller |-> NoCalc, native |-> NoCalc] :
               c \in Currencies, b \in UNION {BaseChoices(x) : x \in Currencies},
               p \in PercentChoices, st \in 0..MaxCalcStep}
  /\ fn.base \in BaseChoices(fn.currency)

\* both engines compute the amounts of the same bid; the controller does
\* not know the balance
ApplyAmounts ==
  /\ fn.op = "calculateBidAmounts" /\ ~fn.done
  /\ fn' = [fn EXCEPT !.done = TRUE,
                      !.controller = CalcAmounts(fn.base, fn.percent, fn.step,
                                                 fn.currency, WZero, MaxSplitIter),
                      !.native = nativeCalcAmounts(fn.base, fn.percent, fn.step,
                                                   fn.currency, MaxSplitIter)]
  /\ UNCHANGED <<bot, eng>>

SpecAmounts == InitAmounts /\ [][ApplyAmounts]_vars

\* C30: the native engine computes the per-currency bounds and rawAmount =
\* amount * 100 without 32-bit overflow, so for the same base, percent and
\* step its calculateBidAmounts returns the amounts the controller returns.
C30_NativeAmountsAsController ==
  (fn.op = "calculateBidAmounts" /\ fn.done) =>
    /\ nativeMinBidOf(fn.currency) = minBidOf(fn.currency)
    /\ nativeMaxBidOf(fn.currency) = maxBidOf(fn.currency)
    /\ fn.native.amounts = fn.controller.amounts


\* a join sequence that ends in this step, and the socket it ran on
JoinEnded(name) ==
  \E t \in BagToSet(bot.tasks) :
    /\ t.k = "join" /\ t.x = name
    /\ CopiesIn(t, bot'.tasks) < CopiesIn(t, bot.tasks)

\* C31: tradeReady (streamReady) becomes true only when a join sequence ends
\* on the socket that is the trade (stream) channel at that moment; a join
\* sequence still running on a socket that a reconnect has replaced or stop()
\* has closed sets neither ready flag.
C31_ReadyOnlyByJoinOfCurrentSocket ==
  [][/\ (~bot.tradeReady /\ bot'.tradeReady) =>
          (bot'.tradeSocket # "null" /\ JoinEnded(bot'.tradeSocket))
     /\ (~bot.streamReady /\ bot'.streamReady) =>
          (bot'.streamSocket # "null" /\ JoinEnded(bot'.streamSocket))]_vars


\* ------------------------------------------------------------------------
\* The controller's ConnectionState over connect attempts (SpecRefs): the
\* two ready flags, the two connected flags, the join-ref table and the ref
\* counter.  fn holds them with the sockets (numbered, 0 for null), the
\* join sequences that run (sock: the socket, stream: whether it was the
\* stream socket when it opened, pos: the messages sent so far) and the
\* position of the connectSockets call that waits for a socket to open.
\* ------------------------------------------------------------------------
MaxRefAttempts == 2

MaxBeats == 1

\* the topics of streamJoinMessages, of which the model keeps the first, a
\* middle one and the asset's topic (the eight others are joined likewise)
StreamJoinTopics == <<"connection", "bo", "asset:A">>

TradeJoinTopics == <<"connection", "bo">>

\* the messages of a join sequence: the phx_join of each topic, and for the
\* stream channel a ping at the end
JoinLength(j) == IF j.stream THEN Len(StreamJoinTopics) + 1 ELSE Len(TradeJoinTopics)

NoJoinRefs == [topic \in {} |-> 0]

\* resetConnectionState with the connected flags
resetConnectionFlags(f) ==
  [f EXCEPT !.tradeReady = FALSE, !.streamReady = FALSE,
            !.tradeConnected = FALSE, !.streamConnected = FALSE]

refsTeardownSockets(f) == [f EXCEPT !.tradeSocket = 0, !.streamSocket = 0]

\* joinTopics sends the message after the first j.pos ones
refsSendJoinMessage(f, j) ==
  LET isJoin == ~j.stream \/ j.pos < Len(StreamJoinTopics)
      topic == IF j.stream THEN StreamJoinTopics[j.pos + 1] ELSE TradeJoinTopics[j.pos + 1]
      f1 == IF isJoin /\ j.stream
            THEN [f EXCEPT !.joinRefs = [t \in DOMAIN @ \cup {topic} |->
                                           IF t = topic THEN f.nextRef ELSE @[t]],
                           !.nextRef = @ + 1]
            ELSE IF ~isJoin /\ j.sock = f.streamSocket
            THEN [f EXCEPT !.nextRef = @ + 1]
            ELSE f
  IN  [f1 EXCEPT !.joins = (@ \ {j}) \cup {[j EXCEPT !.pos = @ + 1]}]

\* connectSockets up to its first wait
refsConnectSockets(f) ==
  LET f1 == resetConnectionFlags(refsTeardownSockets([f EXCEPT !.disconnecting = TRUE]))
  IN  [f1 EXCEPT !.socks = @ + 1, !.tradeSocket = f.socks + 1, !.pc = "waitTrade",
                 !.attempts = @ + 1]

InitRefs ==
  /\ bot = BotFields(DedupeConfig)
  /\ eng = Idle
  /\ fn = [op |-> "refs", status |-> "stopped",
           tradeReady |-> FALSE, streamReady |-> FALSE,
           tradeConnected |-> FALSE, streamConnected |-> FALSE,
           joinRefs |-> NoJoinRefs, nextRef |-> 1,
           tradeSocket |-> 0, streamSocket |-> 0, socks |-> 0, joins |-> {},
           pc |-> "none", disconnecting |-> FALSE, reconnectTimer |-> FALSE,
           attempts |-> 0, beats |-> 0]

\* start(): the reset of the ref counter and the table, then connectSockets
RefsStart ==
  /\ fn.status \notin {"running", "starting"}
  /\ fn.attempts < MaxRefAttempts
  /\ fn' = refsConnectSockets([fn EXCEPT !.status = "starting", !.nextRef = 1,
                                         !.joinRefs = NoJoinRefs,
                                         !.reconnectTimer = FALSE])
  /\ UNCHANGED <<bot, eng>>

\* the open event of the socket the call waits for: onOpen with the first
\* message of its join sequence, and the call goes on
RefsOpen ==
  /\ fn.pc \in {"waitTrade", "waitStream"}
  /\ LET stream == fn.pc = "waitStream"
         sock == IF stream THEN fn.streamSocket ELSE fn.tradeSocket
         j == [sock |-> sock, stream |-> stream, pos |-> 0]
         f1 == IF stream THEN [fn EXCEPT !.streamReady = FALSE]
               ELSE [fn EXCEPT !.tradeReady = FALSE]
         f2 == refsSendJoinMessage([f1 EXCEPT !.joins = @ \cup {j}], j)
         f3 == IF stream THEN [f2 EXCEPT !.streamConnected = TRUE]
               ELSE [f2 EXCEPT !.tradeConnected = TRUE]
     IN  /\ sock # 0
         /\ fn' = IF stream
                  THEN [f3 EXCEPT !.pc = "none", !.disconnecting = FALSE,
                                  !.status = "running"]
                  ELSE [f3 EXCEPT !.socks = @ + 1, !.streamSocket = fn.socks + 1,
                                  !.pc = "waitStream"]
  /\ UNCHANGED <<bot, eng>>

\* a join sequence wakes from its sleep: the next message, or its end
RefsJoinStep ==
  /\ \E j \in fn.joins :
       fn' = IF j.pos < JoinLength(j) THEN refsSendJoinMessage(fn, j)
             ELSE IF j.sock = fn.streamSocket
             THEN [fn EXCEPT !.streamReady = TRUE, !.joins = @ \ {j}]
             ELSE [fn EXCEPT !.tradeReady = TRUE, !.joins = @ \ {j}]
  /\ UNCHANGED <<bot, eng>>

\* the heartbeat timer: a heartbeat and a ping on the stream socket
RefsHeartbeat ==
  /\ fn.status = "running" /\ fn.streamSocket # 0 /\ fn.pc = "none"
  /\ fn.beats < MaxBeats
  /\ fn' = [fn EXCEPT !.nextRef = @ + 2, !.beats = @ + 1]
  /\ UNCHANGED <<bot, eng>>

\* the close event of a socket the engine holds: handleSocketClose
RefsClose ==
  /\ fn.tradeSocket # 0 \/ fn.streamSocket # 0
  /\ LET f1 == resetConnectionFlags(fn)
     IN  fn' = IF f1.status = "running" /\ ~f1.disconnecting
               THEN [refsTeardownSockets(f1) EXCEPT !.disconnecting = TRUE,
                                                    !.reconnectTimer = TRUE]
               ELSE f1
  /\ UNCHANGED <<bot, eng>>

\* the timer of scheduleReconnect fires: connectSockets(lastAuth)
RefsReconnect ==
  /\ fn.reconnectTimer
  /\ fn.attempts < MaxRefAttempts
  /\ fn' = refsConnectSockets([fn EXCEPT !.reconnectTimer = FALSE])
  /\ UNCHANGED <<bot, eng>>

RefsStop ==
  /\ fn.status = "running"
  /\ fn' = refsTeardownSockets(resetConnectionFlags(
             [fn EXCEPT !.status = "stopped", !.disconnecting = FALSE,
                        !.reconnectTimer = FALSE, !.pc = "none"]))
  /\ UNCHANGED <<bot, eng>>

NextRefs ==
  \/ RefsStart \/ RefsOpen \/ RefsJoinStep \/ RefsHeartbeat \/ RefsClose
  \/ RefsReconnect \/ RefsStop

SpecRefs == InitRefs /\ [][NextRefs]_vars

\* C32: at the beginning of every connect or reconnect attempt the whole
\* ConnectionState is reset before a message of the attempt is sent: both
\* ready flags and both connected flags are false, the join-ref table is
\* empty and the ref counter is back at its first value.
C32_AttemptStartsFromResetState ==
  [][(fn.op = "refs" /\ fn'.attempts > fn.attempts) =>
       (/\ ~fn'.tradeReady /\ ~fn'.streamReady
        /\ ~fn'.tradeConnected /\ ~fn'.streamConnected
        /\ fn'.joinRefs = NoJoinRefs
        /\ fn'.nextRef = 1)]_vars


\* ------------------------------------------------------------------------
\* The resume decision as a function of the deal history and the persisted
\* state (SpecResume): fn holds the deals of the two history requests, the
\* ResumeState computeResumeState gives for them, and whether it has been
\* applied to the engine.
\* ------------------------------------------------------------------------
MaxDeals == 2

ResumeDeals ==
  {[status |-> st, win |-> w, created |-> c] :
     st \in {"opened", "closed"}, w \in {-2, -1, 0, 1}, c \in 1..2}

ResumeHistories == UNION {[1..n -> ResumeDeals] : n \in 0..MaxDeals}

InitResume ==
  /\ \E c \in {DefaultConfig, [DefaultConfig EXCEPT !.walletType = "demo"]},
        step \in 0..2, sd \in BOOLEAN :
       bot = [BotFields(c) EXCEPT !.lastBidStep = step, !.lastBidWasSwitchDemo = sd,
                                  !.martingaleStep = step, !.forceDemo = sd,
                                  !.currentWalletType = IF sd THEN "demo" ELSE c.walletType]
  /\ eng = Idle
  /\ fn \in {[op |-> "resume", deals |-> deals, state |-> NoResume, pc |-> "check"] :
               deals \in ResumeHistories}

ResumeCompute ==
  /\ fn.pc = "check"
  /\ fn' = [fn EXCEPT !.state = computeResumeState(bot, fn.deals), !.pc = "apply"]
  /\ UNCHANGED <<bot, eng>>

ResumeApply ==
  /\ fn.pc = "apply"
  /\ bot' = applyResumeState(bot, fn.state)
  /\ fn' = [fn EXCEPT !.pc = "done"]
  /\ UNCHANGED eng

NextResume == ResumeCompute \/ ResumeApply

SpecResume == InitResume /\ [][NextResume]_vars

NoOpenedDeal(deals) == \A i \in 1..Len(deals) : deals[i].status # "opened"

\* the deals no other deal was created after
MostRecent(deals) ==
  {i \in 1..Len(deals) : \A j \in 1..Len(deals) : deals[j].created <= deals[i].created}

\* the decision the rule gives for the deal d: lost for a win of the number
\* 0, won in switch-demo for a positive win with the persisted flag
DecisionFor(s, d) ==
  IF d.win = 0
  THEN [shouldResume |-> TRUE, resumeStep |-> s.lastBidStep + 1, reason |-> "LAST_BID_LOST"]
  ELSE IF d.win > 0 /\ s.lastBidWasSwitchDemo
  THEN [shouldResume |-> TRUE, resumeStep |-> s.lastBidStep + 1,
        reason |-> "LAST_BID_WON_IN_SWITCH_DEMO"]
  ELSE NoResume

\* C33: when no deal is opened the resume decision follows the most recently
\* created deal: a win of exactly 0 gives LAST_BID_LOST with the persisted
\* step + 1, a won deal with the persisted switch-demo flag gives
\* LAST_BID_WON_IN_SWITCH_DEMO, whose application leaves martingaleStep 0,
\* forceDemo false, the configured wallet active and allowAutoSwitch false;
\* every other case gives shouldResume = false with reason NONE.
C33_ResumeFollowsLastDeal ==
  (fn.op = "resume" /\ fn.pc # "check" /\ NoOpenedDeal(fn.deals)) =>
    /\ IF fn.deals = <<>> THEN fn.state = NoResume
       ELSE \E i \in MostRecent(fn.deals) : fn.state = DecisionFor(bot, fn.deals[i])
    /\ (fn.pc = "done" /\ fn.state.reason = "LAST_BID_WON_IN_SWITCH_DEMO") =>
         (/\ bot.martingaleStep = 0 /\ ~bot.forceDemo /\ ~bot.allowAutoSwitch
          /\ bot.currentWalletType = bot.config.walletType)


\* C34: with strategy Fast and the engine running, a win settled outside
\* demo mode makes the trend of the winning bid the override, only a
\* settlement changes the override, and the next transmitted bid carries it
\* whatever trend the fresh candle gives, before the repeatStep and
\* lastSignalTrend rule; a loss clears the override.
C34_FastRepeatsWinningTrend ==
  [][(bot.config.strategy = "Fast" /\ bot.status = "running") =>
       /\ (bot'.settled.called /\ bot'.settled.result = "win" /\ ~IsDemoMode(bot)) =>
            bot'.fastRepeatTrend = bot'.settled.trend
       /\ (bot'.settled.called /\ bot'.settled.result = "loss") =>
            bot'.fastRepeatTrend = NoTrend
       /\ ~bot'.settled.called => bot'.fastRepeatTrend = bot.fastRepeatTrend
       /\ (bot'.sent.creates > 0 /\ bot.fastRepeatTrend # NoTrend) =>
            bot'.sent.trend = bot.fastRepeatTrend]_vars


\* a Fast bid sent with the trend of the won bid while the candle fetched
\* for it pointed the other way
C34_OverrideBeatsFreshTrend ==
  /\ bot.config.strategy = "Fast" /\ bot.sent.creates > 0
  /\ bot.fastRepeatTrend = "call" /\ bot.sent.trend = "call"
  /\ bot.sent.candle = "red"


\* C36: a start() that fails (no API token, an empty signal schedule, or a
\* socket error, close or open-timeout during the initial connect) does not
\* leave status at "starting": the status is "starting" only while a start()
\* call is under way, so the guard of the next start() call lets it through.
C36_FailedStartLeavesStarting ==
  bot.status = "starting" => bot.startPc # "none"


\* ------------------------------------------------------------------------
\* Runs of the candle strategies (SpecRun): Fast and Flash 5st from start()
\* to stop() and a second start(), with the joins ending before or after
\* start() has set the status, a reconnect, the tick chain of
\* scheduleIndicatorStrategy and the continuations that wait for a candle
\* fetch or a profit refresh.  fn counts the ticks, the reconnects and the
\* deals the broker opens.
\* ------------------------------------------------------------------------
MaxRunRuns == 2

MaxTicks == 2

MaxRunReconnects == 1

MaxRunOpens == 1

RunConfigs ==
  {[DefaultConfig EXCEPT !.strategy = st, !.stopProfitAfter = 0, !.autoSwitchDemo = FALSE,
                         !.stopLoss = 0] :
     st \in {"Fast", "Flash 5st"}}

\* candle fetches that give a trend
RunCandles ==
  {[colours |-> <<"green">>, band |-> "call"], [colours |-> <<"red">>, band |-> "put"]}

InitRun ==
  /\ bot \in {[BotFields(c) EXCEPT !.brokerBalance = W(RiskBalance)] : c \in RunConfigs}
  /\ eng = Idle
  /\ fn = [op |-> "run", ticks |-> 0, reconnects |-> 0, opens |-> 0]

\* the timer of scheduleNext fires: runTick up to the candle fetch, with the
\* scheduleNext of its cooldown branch and the one of its finally block
runTick(s) ==
  IF s.status # "running" THEN s
  ELSE IF s.config.strategy \in {"Momentum", "Flash 5st"} /\ s.cooldownActive
  THEN LET s1 == IF s.cooldownCount + 1 >= s.cooldownMax
                 THEN [s EXCEPT !.cooldownActive = FALSE, !.cooldownCount = 0]
                 ELSE [s EXCEPT !.cooldownCount = @ + 1]
       IN  AddTask(AddTask(s1, Task("tick", NoTrend)), Task("tick", NoTrend))
  ELSE AddTask(s, Task("tickFetch", NoTrend))

\* runTick after the candle fetch, and its finally block
runTickFetched(s, candles, ok) ==
  LET r == computeTrend(s, candles)
      s1 == IF ~ok \/ r.trend = NoTrend THEN s
            ELSE IF s.config.strategy = "Momentum"
            THEN queueBidAtSecondZero(r.s, r.trend, FALSE, "tick")
            ELSE sendBid(r.s, r.trend, FALSE, "tick")
  IN  IF s1.status # "running" THEN s1 ELSE AddTask(s1, Task("tick", NoTrend))

\* a socket closes, handleSocketClose tears both down, the reconnect timer
\* fires and connectSockets has both new sockets open
reconnected(s) ==
  LET s1 == [teardownSockets(resetConnectionState(s)) EXCEPT
               !.tradeSocket = "connecting"]
  IN  onOpen([onOpen(s1, "trade") EXCEPT !.streamSocket = "connecting"], "stream")

RunStart ==
  /\ bot.status \notin {"running", "starting"}
  /\ bot.run < MaxRunRuns
  /\ bot' = startBegin(Was(bot), NoResume, TRUE)
  /\ UNCHANGED <<eng, fn>>

RunReconnect ==
  /\ bot.status = "running"
  /\ bot.tradeSocket = "open" /\ bot.streamSocket = "open"
  /\ \A t \in BagToSet(bot.tasks) : t.k # "join"
  /\ fn.reconnects < MaxRunReconnects
  /\ bot' = reconnected(Was(bot))
  /\ fn' = [fn EXCEPT !.reconnects = @ + 1]
  /\ UNCHANGED eng

\* the broker opens the deal it has acknowledged
RunOpened ==
  /\ SeqHas(bot.pendingUUIDs, "u1")
  /\ fn.opens < MaxRunOpens
  /\ bot' = OnOpened(Was(bot), "u1", NextKey(bot), OpenRate, bot.lastSignalTrend)
  /\ fn' = [fn EXCEPT !.opens = @ + 1]
  /\ UNCHANGED eng

RunFastInitialBid ==
  /\ \E t \in BagToSet(bot.tasks), candles \in RunCandles :
       /\ t.k = "fastInitialFetch"
       /\ LET s == DelTask(Was(bot), t)
              r == computeTrend(s, candles)
          IN  bot' = [sendBid(r.s, r.trend, TRUE, "initial") EXCEPT
                        !.sent.candle = Latest(candles)]
  /\ UNCHANGED <<eng, fn>>

RunTick ==
  /\ fn.ticks < MaxTicks
  /\ \E t \in BagToSet(bot.tasks) :
       /\ t.k = "tick"
       /\ bot' = runTick(DelTask(Was(bot), t))
  /\ fn' = [fn EXCEPT !.ticks = @ + 1]
  /\ UNCHANGED eng

RunTickFetched ==
  /\ \E t \in BagToSet(bot.tasks), candles \in RunCandles, ok \in BOOLEAN :
       /\ t.k = "tickFetch"
       /\ bot' = runTickFetched(DelTask(Was(bot), t), candles, ok)
  /\ UNCHANGED <<eng, fn>>

NextRun ==
  \/ RunStart \/ SocketOpens \/ JoinFinishes \/ StartFinishes \/ Stop \/ RunReconnect
  \/ CyclePhxReply \/ RunOpened \/ LadderClose \/ LadderRisk
  \/ FastInitialTimer \/ RunFastInitialBid \/ FastReentry \/ RunTick \/ RunTickFetched
  \/ TimePasses

SpecRun == InitRun /\ [][NextRun]_vars


\* the joins and the initial-bid attempts of the run are over
InitialDecided(s) ==
  \A t \in BagToSet(s.tasks) : t.k \notin {"join", "fastInitial", "fastInitialFetch"}

\* C35: for Fast and Flash 5st the initial bid is transmitted exactly once in
\* a run in which both channels complete their joins, whether they complete
\* before or after start() has set the status to running, and not again
\* after a reconnect: never more than one, and one as soon as the engine is
\* running with both channels ready and no join or initial-bid attempt
\* under way.
C35_InitialBidExactlyOnce ==
  fn.op = "run" =>
    /\ bot.initialCreates <= 1
    /\ (bot.status = "running" /\ bot.tradeReady /\ bot.streamReady
          /\ InitialDecided(bot)) => bot.initialCreates = 1


\* the tick timers and the ticks that wait for their candle fetch
TickChains(s) ==
  BagCardinality([t \in {u \in BagToSet(s.tasks) : u.k \in {"tick", "tickFetch"}} |->
                    s.tasks[t]])

\* a timer of an earlier run, or one of its continuations that wait for a
\* candle fetch or a profit refresh, acts in this step
StaleTaskActs(t) ==
  /\ t.run < bot.run /\ bot'.run = bot.run
  /\ IsTimer(t) \/ t.k \in {"tickFetch", "reentry", "risk", "fastInitialFetch"}
  /\ CopiesIn(t, bot'.tasks) < CopiesIn(t, bot.tasks)

\* C40: after stop() and a new start() no timer and no pending continuation
\* of the stopped run (a tick or a Fast re-entry that waits for its candle
\* fetch, a settlement that waits for its profit refresh) transmits a bid,
\* schedules a tick or changes the ladder state in the new run, and at most
\* one tick chain is active at any time.
C40_StoppedRunLeavesNothingActive ==
  /\ [][\A t \in BagToSet(bot.tasks) :
          StaleTaskActs(t) =>
            (/\ bot'.sent.creates = 0
             /\ Ladder(bot') = Ladder(bot)
             /\ TickChains(bot') <= TickChains(bot))]_vars
  /\ [](fn.op = "run" => TickChains(bot) <= 1)


\* ------------------------------------------------------------------------
\* Bids that are split into sub-bids (SpecSub): a Signal run whose amount is
\* under or over the highest amount of one deal; every create is answered
\* and opened on its own, and the deals of one bid close in one batch.
\* fn counts the deals the broker opens.
\* ------------------------------------------------------------------------
MaxSubOpens == 4

SubConfigs ==
  {[DefaultConfig EXCEPT !.strategy = "Signal", !.bidAmount = b, !.autoSwitchDemo = FALSE,
                         !.stopLoss = 0, !.stopProfitAfter = 0, !.resetMartingale = 3,
                         !.signals = <<"call", "put">>] : b \in {1, 6000}}

InitSub ==
  /\ bot \in {[LadderStart(c, NoStore, FALSE) EXCEPT
                  !.brokerBalance = WZero, !.balanceReal = WZero,
                  !.balanceDemo = WZero] : c \in SubConfigs}
  /\ eng = Idle
  /\ fn = [op |-> "sub", opens |-> 0]

SubPhxReply ==
  /\ bot.unacked > 0
  /\ \E uuid \in Uuids :
       /\ ~SeqHas(bot.pendingUUIDs, uuid)
       /\ \A i \in 1..Len(bot.openedBids) : bot.openedBids[i].uuid # uuid
       /\ bot' = OnPhxReply([Was(bot) EXCEPT !.unacked = @ - 1], uuid)
  /\ UNCHANGED <<eng, fn>>

\* the deals of one bid have the same close time
SubOpened ==
  /\ fn.opens < MaxSubOpens
  /\ \E uuid \in Uuids :
       /\ SeqHas(bot.pendingUUIDs, uuid)
       /\ bot' = OnOpened(Was(bot), uuid, NextKey(bot), OpenRate, bot.lastSignalTrend)
  /\ fn' = [fn EXCEPT !.opens = @ + 1]
  /\ UNCHANGED eng

\* the batch closes when the broker has opened every deal of the bid
SubClose ==
  /\ bot.openedBids # <<>>
  /\ bot.unacked = 0 /\ bot.pendingUUIDs = <<>>
  /\ \E endRate \in EndRates :
       bot' = handleCloseDealBatch(Was(bot), NextKey(bot), endRate)
  /\ UNCHANGED <<eng, fn>>

NextSub ==
  \/ SignalTimer \/ AlignedTimer \/ SubPhxReply \/ SubOpened \/ SubClose
  \/ LadderRisk \/ TimePasses

SpecSub == InitSub /\ [][NextSub]_vars

\* C37: the settlement of one logical bid, whether sent as one deal or split
\* into k sub-bids, changes martingaleStep, lossStreak and repeatStep as the
\* settlement of a single bid does: a lost bid advances each of them by one
\* at most, not by k.
C37_SplitBidSettlesAsOne ==
  [][(fn.op = "sub" /\ bot'.settled.called) =>
       (/\ bot'.martingaleStep <= bot.martingaleStep + 1
        /\ bot'.lossStreak <= bot.lossStreak + 1
        /\ bot'.repeatStep <= bot.repeatStep + 1)]_vars


\* ------------------------------------------------------------------------
\* The two frames of an accepted bid in either order (SpecOrder): the
\* broker answers a create with a phx_reply that carries the uuid of the
\* deal and announces the deal with an opened frame; the two travel apart.
\* fn holds the frames on their way and the number of deals accepted.  The
\* transport delivers every frame it carries, and the broker answers every
\* create: both are weakly fair.
\* ------------------------------------------------------------------------
MaxOrderBids == 2

OrderConfigs ==
  {[DefaultConfig EXCEPT !.strategy = "Signal", !.autoSwitchDemo = a, !.stopLoss = 0,
                         !.stopProfitAfter = 0, !.signals = <<"call", "put">>] :
     a \in BOOLEAN}

OrderUuid(n) == IF n = 1 THEN "u1" ELSE "u2"

InitOrder ==
  /\ bot \in {[LadderStart(c, NoStore, FALSE) EXCEPT
                  !.brokerBalance = W(RiskBalance), !.balanceReal = W(RiskBalance),
                  !.balanceDemo = W(RiskBalance)] : c \in OrderConfigs}
  /\ eng = Idle
  /\ fn = [op |-> "order", flight |-> {}, accepted |-> 0]

\* the broker accepts a create: its reply and its opened frame set out
OrderAccept ==
  /\ bot.unacked > 0
  /\ fn.accepted < MaxOrderBids
  /\ bot' = [Was(bot) EXCEPT !.unacked = @ - 1]
  /\ fn' = [fn EXCEPT !.accepted = @ + 1,
                      !.flight = @ \cup {[event |-> "phx_reply", uuid |-> OrderUuid(fn.accepted + 1)],
                                         [event |-> "opened", uuid |-> OrderUuid(fn.accepted + 1)]}]
  /\ UNCHANGED eng

\* handleSocketEvent for a frame that arrives
OrderDeliver ==
  /\ \E f \in fn.flight :
       /\ bot' = IF f.event = "phx_reply" THEN OnPhxReply(Was(bot), f.uuid)
                 ELSE OnOpened(Was(bot), f.uuid, NextKey(bot), OpenRate, bot.lastSignalTrend)
       /\ fn' = [fn EXCEPT !.flight = @ \ {f}]
  /\ UNCHANGED eng

NextOrder ==
  \/ SignalTimer \/ AlignedTimer \/ OrderAccept \/ OrderDeliver
  \/ LadderClose \/ LadderRisk \/ TimePasses

SpecOrder ==
  InitOrder /\ [][NextOrder]_vars /\ WF_vars(OrderAccept) /\ WF_vars(OrderDeliver)

\* C38: while the engine is running every uuid added to pendingUUIDs is
\* eventually removed, in every delivery order of the phx_reply and the
\* opened frame of the bid, so that the open-position guard of sendBid does
\* not refuse every further bid of the run.
C38_PendingUuidEventuallyRemoved ==
  \A uuid \in Uuids :
    (bot.status = "running" /\ SeqHas(bot.pendingUUIDs, uuid))
      ~> ~SeqHas(bot.pendingUUIDs, uuid)


\* ------------------------------------------------------------------------
\* A run that is interrupted after a lost bid and resumed (SpecInterrupt):
\* the engine settles its bids; after a loss the app is restarted, finds the
\* lost deal as the last one of the history and starts with the resume
\* state.  fn holds the result of the last settlement and the step the
\* engine had after it, and, once resumed, the step the resumed engine
\* started with and the step the engine had before the restart (-1: not
\* resumed).
\* ------------------------------------------------------------------------
MaxResetMartingale == 2

\* bids the broker opens in one behaviour
MaxInterruptBids == 3

InterruptConfigs ==
  {[DefaultConfig EXCEPT !.strategy = "Signal", !.autoSwitchDemo = FALSE, !.stopLoss = 0,
                         !.stopProfitAfter = 0, !.resetMartingale = n,
                         !.maxMartingale = 0,
                         !.signals = <<"call", "call", "call", "call">>] :
     n \in -1..MaxResetMartingale}

LostDeal == <<[status |-> "closed", win |-> 0, created |-> 1]>>

InitInterrupt ==
  /\ bot \in {[LadderStart(c, NoStore, FALSE) EXCEPT
                  !.brokerBalance = W(RiskBalance), !.balanceReal = W(RiskBalance),
                  !.balanceDemo = W(RiskBalance)] : c \in InterruptConfigs}
  /\ eng = Idle
  /\ fn = [op |-> "interrupt", result |-> "none", stepAfter |-> 0, resumedStep |-> -1,
           uninterruptedStep |-> -1, bids |-> 0, opens |-> 0]

InterruptOpened ==
  /\ fn.opens < MaxInterruptBids
  /\ SeqHas(bot.pendingUUIDs, "u1")
  /\ bot' = OnOpened(Was(bot), "u1", NextKey(bot), OpenRate, bot.lastSignalTrend)
  /\ fn' = [fn EXCEPT !.opens = @ + 1]
  /\ UNCHANGED eng

InterruptClose ==
  /\ bot.openedBids # <<>>
  /\ \E endRate \in EndRates :
       bot' = handleCloseDealBatch(Was(bot), NextKey(bot), endRate)
  /\ fn' = [fn EXCEPT !.result = bot'.settled.result,
                      !.stepAfter = bot'.martingaleStep,
                      !.bids = Len(bot.openedBids)]
  /\ UNCHANGED eng

\* the app is restarted after the loss: a new BotService with the persisted
\* state, checkResumeState and a start() with its result; the restart
\* follows a batch that settled one lost bid
InterruptResume ==
  /\ fn.result = "loss" /\ fn.bids = 1 /\ fn.resumedStep = -1
  /\ bot.unacked = 0 /\ bot.pendingUUIDs = <<>> /\ bot.openedBids = <<>>
  /\ LET s0 == [BotFields(bot.config) EXCEPT !.store = bot.store,
                                             !.brokerBalance = bot.brokerBalance]
         s1 == checkResumeState(s0, LostDeal)
         s2 == StartThrough(s1, s1.pendingResumeState)
     IN  /\ s1.pendingResumeState.reason = "LAST_BID_LOST"
         /\ bot' = s2
         /\ fn' = [fn EXCEPT !.resumedStep = s2.martingaleStep,
                             !.uninterruptedStep = fn.stepAfter, !.result = "none"]
  /\ UNCHANGED eng

NextInterrupt ==
  \/ SignalTimer \/ AlignedTimer \/ CyclePhxReply \/ InterruptOpened \/ InterruptClose
  \/ LadderRisk \/ TimePasses \/ InterruptResume

SpecInterrupt == InitInterrupt /\ [][NextInterrupt]_vars

\* C39: a start resumed with reason LAST_BID_LOST puts martingaleStep at the
\* value the uninterrupted engine had after it settled that loss, for every
\* resetMartingale setting, a loss taken at the reset threshold included.
C39_ResumeStepAsUninterrupted ==
  (fn.op = "interrupt" /\ fn.resumedStep # -1) => fn.resumedStep = fn.uninterruptedStep

====
